---- MODULE Spec2Model ----
(***************************************************************************)
(* A model of lightbus' Redis transports (lightbus/transports/redis.py):   *)
(* the RPC and result transports over Redis lists and expiry keys, the     *)
(* event transport over Redis streams and consumer groups, and the         *)
(* connection manager shared by all of them.                               *)
(*                                                                         *)
(* The specifications of the module: SpecRpc and SpecRpcResult (RPC and    *)
(* result transports), SpecEventSolo, SpecEventGroup and SpecEventFair     *)
(* (event transport) and SpecPool (connection manager).  Each leaves the   *)
(* other parts' variables alone.                                           *)
(*                                                                         *)
(* Redis itself is the environment.  Every Redis command is one atomic     *)
(* step.  redis.pipeline() of aioredis is a plain pipeline (the commands   *)
(* are sent together and run in order, with no MULTI/EXEC around them), so *)
(* the stages of a pipeline are separate steps: commands of other clients  *)
(* and the passing of time may fall between them.                          *)
(***************************************************************************)
EXTENDS Integers, Sequences, FiniteSets, TLC

(***************************************************************************)
(* Bounds of the model.                                                    *)
(***************************************************************************)
\* Number of call_rpc invocations; call ids are 1..MaxCalls (message ids
\* are unique).
MaxCalls == 2
\* Number of ConnectionClosedError a consume_rpcs caller meets.
MaxRpcLosses == 2
\* rpc_timeout of the RPC transport, in clock ticks.
rpc_timeout == 2
\* Number of connection_manager() and close() calls made on the transport.
MaxCmOps == 4
\* Number of send_event calls.
MaxEvents == 2
\* Number of failures met by consume sessions: connection losses, callers
\* closing the generator, processes dying.
MaxFaults == 1
\* batch_size of the event transports.
batch_size == 2
\* Number of store and load calls on the schema transport.
MaxSchemaOps == 3
\* The largest ttl_seconds given to store, in clock ticks.
MaxTtl == 1
\* The largest id of an RPC message given to get_return_path.
MaxMessageId == 3
\* The largest small milliseconds part and sequence number of the stream ids
\* given to redis_stream_id_subtract_one.
MaxMs == 10
MaxSeq == 2

(***************************************************************************)
(* RPC and result transports: state.                                       *)
(***************************************************************************)
VARIABLES
    rpc_queue,      \* Redis: "<api>:rpc_queue" lists, api -> sequence of messages
    expiry_key,     \* Redis: "rpc_expiry_key:<id>", id -> [exists, ttl]
    result_key,     \* Redis: "<api>.<proc>:result:<id>" list, id -> [items, ttl]
    call_pc,        \* call_rpc(id): position in the pipeline
    call_api,       \* call_rpc(id): rpc_message.api_name
    consume_pc,     \* consume_rpcs of consumer c: position
    consume_msg,    \* _consume_rpcs: rpc_message popped (0: none)
    consume_ret,    \* consume_rpcs: the batch last returned
    send_pc,        \* send_result(id): position in the pipeline
    rpc_losses,     \* number of connection losses so far
    age,            \* history: ticks since call_rpc(id) returned (-1: not yet)
    popped,         \* history: id -> number of times BLPOP handed it out
    delivered,      \* history: id -> number of times returned in a batch
    obs             \* history: per consumer, what its last pop and DEL saw

rpcVars == <<rpc_queue, expiry_key, result_key, call_pc, call_api, consume_pc,
             consume_msg, consume_ret, send_pc, rpc_losses, age, popped,
             delivered, obs>>

VARIABLES
    cm_injected,    \* the transport was given redis_pool (connection_parameters is None)
    cm_closed,      \* self._closed
    cm_local,       \* self._local.redis_pool per thread (0: no such attribute)
    cm_pools,       \* aioredis pools by id: "none", "open", "closing", "closed"
    cm_pc,          \* per task: "idle", "creating", "holding", "close_wait"
    cm_pool,        \* per task: the pool it borrowed from or is closing
    cm_outcome,     \* per task: how its last call ended
    cm_ops,         \* number of calls started so far
    cm_entered_closed,  \* history: _closed was set when the task's last
                        \* connection_manager() call began
    cm_was_closed,  \* history: _closed has been set at some time
    close_init,     \* history: pool id -> number of pool.close() calls
    close_overlap,  \* history: some close() began while another was running
    close_post      \* history: per task, what its last close() left behind

cmVars == <<cm_injected, cm_closed, cm_local, cm_pools, cm_pc, cm_pool,
            cm_outcome, cm_ops, cm_entered_closed, cm_was_closed, close_init,
            close_overlap, close_post>>

VARIABLES
    ev_conf,        \* the configuration of the consumers: stream_use of the
                    \* transports, since and forever of their consume() calls
    ev_stream,      \* Redis: stream name -> sequence of entries; an entry's id is
                    \* its position
    ev_group,       \* Redis: the consumer group of each stream: whether it exists,
                    \* the id it started after, the last id delivered
    ev_pel,         \* Redis: the group's pending entries of each stream, a set of
                    \* [id, consumer, idle] (idle: ms since the last delivery)
    ev_sent,        \* number of send_event calls so far
    ev_faults,      \* number of failures so far
    ev_fetch,       \* per consumer, the fetch task of its session: position, index
                    \* of the stream at hand, rest of the reply, which read the
                    \* reply is from, message to put; and, as history, the last
                    \* message it has yielded in the session
    ev_reclaim,     \* per consumer, the reclaim task: position, ticks left to
                    \* sleep, index of the stream at hand, rest of old_messages,
                    \* message to put
    ev_queue,       \* per consumer, the asyncio.Queue: items, unfinished tasks
    ev_gen          \* per consumer, the generator: position, message yielded

evVars == <<ev_conf, ev_stream, ev_group, ev_pel, ev_sent, ev_faults, ev_fetch, ev_reclaim,
            ev_queue, ev_gen>>

VARIABLES
    recv_pc,        \* receive_result per caller: "idle", "blpop", "done",
                    \* "cancelled"
    recv_wait,      \* per caller: ticks since its BLPOP was issued
    recv_empty,     \* per caller: a BLPOP of this call has replied None
    recv_result     \* per caller: the result message returned (the id of the
                    \* call it answers), 0 for none

recvVars == <<recv_pc, recv_wait, recv_empty, recv_result>>

VARIABLES
    schema_key,     \* Redis: "schema:<api>", api -> [exists, value, ttl]
    schemas_set,    \* Redis: the set "schemas" of api names
    sch_pc,         \* the caller of the schema transport: "idle", in store at
                    \* "set", "expire", "sadd", in load at "smembers", "mget"
    sch_call,       \* store: api_name, schema, ttl_seconds of the call
    sch_names,      \* load: api_names, the reply of SMEMBERS
    sch_loaded,     \* load: the dict last returned, api -> schema
    sch_ops,        \* number of store and load calls so far
    sch_last        \* history: api -> the schema and ttl of its last store and
                    \* the ticks since its EXPIRE ran (stored: FALSE before
                    \* the first)

schVars == <<schema_key, schemas_set, sch_pc, sch_call, sch_names, sch_loaded,
             sch_ops, sch_last>>

VARIABLES
    rp_msg,         \* the rpc_message given to get_return_path
    rp_path,        \* get_return_path(rpc_message), <<>> before the call
    rp_send_key,    \* send_result: redis_key parsed from the return path
    rp_recv_key     \* receive_result: redis_key parsed from the return path

retVars == <<rp_msg, rp_path, rp_send_key, rp_recv_key>>

VARIABLES
    sid_in,         \* the message_id given to redis_stream_id_subtract_one
    sid_out         \* what it returned, <<>> before the call

sidVars == <<sid_in, sid_out>>

VARIABLES
    ev_exit         \* per consumer, the generator in its finally clause: how it
                    \* is leaving and which task cancel() is awaiting

exitVars == <<ev_exit>>

VARIABLES
    ls_since,       \* the since argument of a consume() call, one value per pair
    ls_pc,          \* that call: its position in the set-up
    ls_k,           \* _create_consumer_groups: the entry of `streams` it is at
    ls_streams,     \* streams: the pairs (stream name, since), in order
    ls_created,     \* Redis: the XGROUP CREATE calls made, (stream, latest_id)
    ls_yielded      \* the event the call yielded last, (api_name, event_name)

lsVars == <<ls_since, ls_pc, ls_k, ls_streams, ls_created, ls_yielded>>

VARIABLES
    br_maxsize,     \* maxsize of the connection pool of the transport
    br_fetch,       \* per consume() session, the fetch task: its position
    br_reclaim,     \* per session, the reclaim task: its position
    br_gen,         \* per session, the generator: its position
    br_queue        \* per session, the asyncio.Queue: items, unfinished tasks

brVars == <<br_maxsize, br_fetch, br_reclaim, br_gen, br_queue>>

\* The parts added to the model after the first ones.
restVars == <<schVars, retVars, sidVars, exitVars, lsVars, brVars>>
notSchVars == <<rpcVars, cmVars, evVars, recvVars, retVars, sidVars, exitVars, lsVars, brVars>>
notRetVars == <<rpcVars, cmVars, evVars, recvVars, schVars, sidVars, exitVars, lsVars, brVars>>
notSidVars == <<rpcVars, cmVars, evVars, recvVars, schVars, retVars, exitVars, lsVars, brVars>>
notExitVars == <<rpcVars, cmVars, recvVars, ev_conf, schVars, retVars, sidVars, lsVars, brVars>>
notLsVars == <<rpcVars, cmVars, evVars, recvVars, schVars, retVars, sidVars, exitVars,
               brVars>>
notBrVars == <<rpcVars, cmVars, evVars, recvVars, schVars, retVars, sidVars, exitVars,
               lsVars>>

\* The variables an action of one part leaves alone.
notRpcVars == <<cmVars, evVars, recvVars, restVars>>
notCmVars == <<rpcVars, evVars, recvVars, restVars>>
notEvVars == <<rpcVars, cmVars, recvVars, ev_conf, restVars>>
notRecvVars == <<rpcVars, cmVars, evVars, restVars>>

CallIds == 1..MaxCalls
Apis == {"auth", "acct"}
RpcConsumers == {"w1", "w2"}
\* rpc_message.api_name of call i: calls alternate between the two APIs.
ApiOf(i) == IF i % 2 = 1 THEN "auth" ELSE "acct"
\* The apis argument each worker calls consume_rpcs with: both serve both
\* APIs, in opposite orders.
ApisOf(c) == IF c = "w1" THEN <<"auth", "acct">> ELSE <<"acct", "auth">>

\* A key that does not exist / a key with a value and no TTL / with a TTL.
NoKey == [exists |-> FALSE, ttl |-> -1]
KeyNoTtl == [exists |-> TRUE, ttl |-> -1]
KeyTtl(t) == [exists |-> TRUE, ttl |-> t]

\* Redis EXPIRE: sets the TTL of an existing key, does nothing to a missing one.
Expire(key, timeout) == IF key.exists THEN KeyTtl(timeout) ELSE key

\* The passing of one tick for a key: a key lives through `ttl` whole ticks
\* after EXPIRE (Redis keeps a key while now <= its expiry time).
TickKey(key) ==
    IF key.exists /\ key.ttl >= 0
    THEN IF key.ttl = 0 THEN NoKey ELSE KeyTtl(key.ttl - 1)
    ELSE key

\* What a consumer's last pop saw: the call, how far its call_rpc was
\* ("set": only RPUSH had run, "expire": SET too, "done": all three), whether
\* the expiry key existed, whether more than rpc_timeout had passed since
\* call_rpc returned; and what its DEL replied (-1: no DEL yet).
NoObs == [id |-> 0, stageAtPop |-> "", keyAtPop |-> FALSE, lateAtPop |-> FALSE,
          key_deleted |-> -1]

InitRpc ==
    /\ rpc_queue = [a \in Apis |-> <<>>]
    /\ expiry_key = [i \in CallIds |-> NoKey]
    /\ result_key = [i \in CallIds |-> [items |-> <<>>, ttl |-> "none"]]
    /\ call_pc = [i \in CallIds |-> "new"]
    /\ call_api = [i \in CallIds |-> "auth"]
    /\ consume_pc = [c \in RpcConsumers |-> "idle"]
    /\ consume_msg = [c \in RpcConsumers |-> 0]
    /\ consume_ret = [c \in RpcConsumers |-> <<>>]
    /\ send_pc = [i \in CallIds |-> "none"]
    /\ rpc_losses = 0
    /\ age = [i \in CallIds |-> -1]
    /\ popped = [i \in CallIds |-> 0]
    /\ delivered = [i \in CallIds |-> 0]
    /\ obs = [c \in RpcConsumers |-> NoObs]

(***************************************************************************)
(* RedisRpcTransport.call_rpc: the pipeline RPUSH, SET, EXPIRE.            *)
(***************************************************************************)
\* Redis RPUSH: the value is appended at the tail of the list.
RpushBad(list, value) == <<value>> \o list
Rpush(list, value) == Append(list, value)

\* p.rpush(key=queue_key, value=serializer(rpc_message))
CallRpcRpush(i, api) ==
    /\ call_pc[i] = "new"
    /\ \A j \in CallIds : j < i => call_pc[j] # "new"
    /\ call_api' = [call_api EXCEPT ![i] = api]
    /\ rpc_queue' = [rpc_queue EXCEPT ![api] = Rpush(@, [id |-> i, api_name |-> api])]
    /\ call_pc' = [call_pc EXCEPT ![i] = "set"]
    /\ UNCHANGED <<notRpcVars, expiry_key, result_key, consume_pc, consume_msg,
                   consume_ret, send_pc, rpc_losses, age, popped, delivered, obs>>

\* p.set(expiry_key, 1)
CallRpcSet(i) ==
    /\ call_pc[i] = "set"
    /\ expiry_key' = [expiry_key EXCEPT ![i] = KeyNoTtl]
    /\ call_pc' = [call_pc EXCEPT ![i] = "expire"]
    /\ UNCHANGED <<notRpcVars, rpc_queue, result_key, call_api, consume_pc,
                   consume_msg, consume_ret, send_pc, rpc_losses, age, popped,
                   delivered, obs>>

\* The timeout call_rpc passes to EXPIRE.
ExpiryTimeoutBad == rpc_timeout + 1
ExpiryTimeout == rpc_timeout

\* p.expire(expiry_key, timeout=self.rpc_timeout); execute() returns.
CallRpcExpire(i) ==
    /\ call_pc[i] = "expire"
    /\ expiry_key' = [expiry_key EXCEPT ![i] = Expire(@, ExpiryTimeout)]
    /\ call_pc' = [call_pc EXCEPT ![i] = "done"]
    /\ age' = [age EXCEPT ![i] = 0]
    /\ UNCHANGED <<notRpcVars, rpc_queue, result_key, call_api, consume_pc,
                   consume_msg, consume_ret, send_pc, rpc_losses, popped,
                   delivered, obs>>

(***************************************************************************)
(* RedisRpcTransport.consume_rpcs / _consume_rpcs.                         *)
(***************************************************************************)
\* queue_keys: the first api of `apis` (from position k) whose list is not
\* empty, as BLPOP key1 key2 ... serves them; "" when all are empty.
RECURSIVE FirstReady(_, _, _)
FirstReady(queues, apis, k) ==
    IF k > Len(apis) THEN ""
    ELSE IF queues[apis[k]] # <<>> THEN apis[k]
    ELSE FirstReady(queues, apis, k + 1)

\* What BLPOP leaves of the list it pops from.
LPopBad(list) == list
LPop(list) == Tail(list)

\* consume_rpcs is called: _consume_rpcs borrows a connection and blocks in BLPOP.
ConsumeRpcs(c) ==
    /\ consume_pc[c] = "idle"
    /\ consume_pc' = [consume_pc EXCEPT ![c] = "blpop"]
    /\ consume_msg' = [consume_msg EXCEPT ![c] = 0]
    /\ consume_ret' = [consume_ret EXCEPT ![c] = <<>>]
    /\ obs' = [obs EXCEPT ![c] = NoObs]
    /\ UNCHANGED <<notRpcVars, rpc_queue, expiry_key, result_key, call_pc, call_api,
                   send_pc, rpc_losses, age, popped, delivered>>

\* stream, data = await redis.blpop(*queue_keys); rpc_message = deserializer(data)
Blpop(c) ==
    /\ consume_pc[c] = "blpop"
    /\ LET api == FirstReady(rpc_queue, ApisOf(c), 1) IN
        /\ api # ""
        /\ LET m == Head(rpc_queue[api]) IN
            /\ rpc_queue' = [rpc_queue EXCEPT ![api] = LPop(@)]
            /\ consume_msg' = [consume_msg EXCEPT ![c] = m.id]
            /\ popped' = [popped EXCEPT ![m.id] = @ + 1]
            /\ obs' = [obs EXCEPT ![c] =
                        [id |-> m.id,
                         stageAtPop |-> call_pc[m.id],
                         keyAtPop |-> expiry_key[m.id].exists,
                         lateAtPop |-> age[m.id] > rpc_timeout,
                         key_deleted |-> -1]]
    /\ consume_pc' = [consume_pc EXCEPT ![c] = "del"]
    /\ UNCHANGED <<notRpcVars, expiry_key, result_key, call_pc, call_api,
                   consume_ret, send_pc, rpc_losses, age, delivered>>

\* The batch _consume_rpcs returns, given DEL's reply.
BatchBad(key_deleted, id) == <<id>>
Batch(key_deleted, id) == IF key_deleted = 0 THEN <<>> ELSE <<id>>

\* key_deleted = await redis.delete(expiry_key); return [] or [rpc_message].
\* A returned message is handed to the worker, which will send its result.
Delete(c) ==
    /\ consume_pc[c] = "del"
    /\ LET i == consume_msg[c]
           key_deleted == IF expiry_key[i].exists THEN 1 ELSE 0
           batch == Batch(key_deleted, i)
       IN
        /\ expiry_key' = [expiry_key EXCEPT ![i] = NoKey]
        /\ consume_ret' = [consume_ret EXCEPT ![c] = batch]
        /\ delivered' = [delivered EXCEPT ![i] = @ + Len(batch)]
        /\ send_pc' = [send_pc EXCEPT ![i] =
                        IF batch # <<>> /\ @ = "none" THEN "lpush" ELSE @]
        /\ obs' = [obs EXCEPT ![c].key_deleted = key_deleted]
    /\ consume_pc' = [consume_pc EXCEPT ![c] = "idle"]
    /\ UNCHANGED <<notRpcVars, rpc_queue, result_key, call_pc, call_api,
                   consume_msg, rpc_losses, age, popped>>

\* _consume_rpcs, `except RuntimeError` around the BLPOP: the exception that
\* leaves _consume_rpcs when the BLPOP raises exc.
BlpopRaises(exc) == IF exc = "RuntimeError" THEN "CancelledError" ELSE exc

\* consume_rpcs, `except ConnectionClosedError`: where consume_rpcs is after
\* exc has left _consume_rpcs, in the sleep of the handler or, for any other
\* exception, left with that exception.
AfterRaiseBad(exc) == exc
AfterRaise(exc) == IF exc = "ConnectionClosedError" THEN "sleep" ELSE exc

\* ConnectionClosedError while blocked in BLPOP: nothing was popped;
\* consume_rpcs logs and sleeps consumption_restart_delay.
BlpopConnectionClosed(c) ==
    /\ consume_pc[c] = "blpop"
    /\ rpc_losses < MaxRpcLosses
    /\ rpc_losses' = rpc_losses + 1
    /\ consume_pc' = [consume_pc EXCEPT
                        ![c] = AfterRaise(BlpopRaises("ConnectionClosedError"))]
    /\ UNCHANGED <<notRpcVars, rpc_queue, expiry_key, result_key, call_pc, call_api,
                   consume_msg, consume_ret, send_pc, age, popped,
                   delivered, obs>>

\* ConnectionClosedError in DEL: the popped message is dropped with the frame
\* of _consume_rpcs; the server may or may not have run the DEL.
DeleteConnectionClosed(c, applied) ==
    /\ consume_pc[c] = "del"
    /\ rpc_losses < MaxRpcLosses
    /\ rpc_losses' = rpc_losses + 1
    /\ expiry_key' = IF applied THEN [expiry_key EXCEPT ![consume_msg[c]] = NoKey]
                     ELSE expiry_key
    /\ consume_msg' = [consume_msg EXCEPT ![c] = 0]
    /\ obs' = [obs EXCEPT ![c] = NoObs]
    /\ consume_pc' = [consume_pc EXCEPT ![c] = AfterRaise("ConnectionClosedError")]
    /\ UNCHANGED <<notRpcVars, rpc_queue, result_key, call_pc, call_api,
                   consume_ret, send_pc, age, popped, delivered>>

\* await asyncio.sleep(consumption_restart_delay) is over: the while loop of
\* consume_rpcs calls _consume_rpcs again.
ConsumeRestart(c) ==
    /\ consume_pc[c] = "sleep"
    /\ consume_pc' = [consume_pc EXCEPT ![c] = "blpop"]
    /\ UNCHANGED <<notRpcVars, rpc_queue, expiry_key, result_key, call_pc, call_api,
                   consume_msg, consume_ret, send_pc, rpc_losses,
                   age, popped, delivered, obs>>

\* What a cancellation surfaces as in a task that waits for the reply of a
\* Redis command: CancelledError, or the RuntimeError the client library
\* gives the waiters of a connection whose reader task was cancelled.
Cancellations == {"CancelledError", "RuntimeError"}

\* consume_rpcs is cancelled while blocked in BLPOP: nothing was popped.
CancelBlpop(c, raised) ==
    /\ consume_pc[c] = "blpop"
    /\ consume_pc' = [consume_pc EXCEPT ![c] = AfterRaise(BlpopRaises(raised))]
    /\ UNCHANGED <<notRpcVars, rpc_queue, expiry_key, result_key, call_pc, call_api,
                   consume_msg, consume_ret, send_pc, rpc_losses, age, popped,
                   delivered, obs>>

\* consume_rpcs is cancelled while it waits for the reply of the DEL, which
\* the server may or may not have run: the popped message is dropped with
\* the frame of _consume_rpcs.
CancelDelete(c, raised, applied) ==
    /\ consume_pc[c] = "del"
    /\ expiry_key' = IF applied THEN [expiry_key EXCEPT ![consume_msg[c]] = NoKey]
                     ELSE expiry_key
    /\ consume_msg' = [consume_msg EXCEPT ![c] = 0]
    /\ obs' = [obs EXCEPT ![c] = NoObs]
    /\ consume_pc' = [consume_pc EXCEPT ![c] = AfterRaise(raised)]
    /\ UNCHANGED <<notRpcVars, rpc_queue, result_key, call_pc, call_api,
                   consume_ret, send_pc, rpc_losses, age, popped, delivered>>

\* consume_rpcs is cancelled in asyncio.sleep(consumption_restart_delay),
\* inside the handler of ConnectionClosedError.
CancelSleep(c) ==
    /\ consume_pc[c] = "sleep"
    /\ consume_pc' = [consume_pc EXCEPT ![c] = "CancelledError"]
    /\ UNCHANGED <<notRpcVars, rpc_queue, expiry_key, result_key, call_pc, call_api,
                   consume_msg, consume_ret, send_pc, rpc_losses, age, popped,
                   delivered, obs>>

(***************************************************************************)
(* RedisResultTransport.send_result: the pipeline LPUSH, EXPIRE.           *)
(***************************************************************************)
\* p.lpush(redis_key, serializer(result_message))
SendResultLpush(i) ==
    /\ send_pc[i] = "lpush"
    /\ result_key' = [result_key EXCEPT ![i].items = <<i>> \o @]
    /\ send_pc' = [send_pc EXCEPT ![i] = "expire"]
    /\ UNCHANGED <<notRpcVars, rpc_queue, expiry_key, call_pc, call_api, consume_pc,
                   consume_msg, consume_ret, rpc_losses, age,
                   popped, delivered, obs>>

\* p.expire(redis_key, timeout=self.result_ttl); execute() returns.
SendResultExpire(i) ==
    /\ send_pc[i] = "expire"
    /\ result_key' = [result_key EXCEPT ![i].ttl =
                        IF result_key[i].items # <<>> THEN "result_ttl" ELSE @]
    /\ send_pc' = [send_pc EXCEPT ![i] = "done"]
    /\ UNCHANGED <<notRpcVars, rpc_queue, expiry_key, call_pc, call_api, consume_pc,
                   consume_msg, consume_ret, rpc_losses, age,
                   popped, delivered, obs>>

\* Redis: result_ttl has elapsed, the result list is removed.
ResultExpired(i) ==
    /\ result_key[i].ttl = "result_ttl"
    /\ result_key' = [result_key EXCEPT ![i] = [items |-> <<>>, ttl |-> "none"]]
    /\ UNCHANGED <<notRpcVars, rpc_queue, expiry_key, call_pc, call_api, consume_pc,
                   consume_msg, consume_ret, send_pc, rpc_losses,
                   age, popped, delivered, obs>>

(***************************************************************************)
(* Redis: one tick of the clock.  Expiry keys past their TTL disappear.    *)
(***************************************************************************)
RpcTick ==
    /\ expiry_key' = [i \in CallIds |-> TickKey(expiry_key[i])]
    /\ age' = [i \in CallIds |->
                IF age[i] >= 0 /\ age[i] <= rpc_timeout THEN age[i] + 1 ELSE age[i]]
    /\ UNCHANGED <<notRpcVars, rpc_queue, result_key, call_pc, call_api, consume_pc,
                   consume_msg, consume_ret, send_pc, rpc_losses,
                   popped, delivered, obs>>

NextRpc ==
    \/ \E i \in CallIds : CallRpcRpush(i, ApiOf(i))
    \/ \E i \in CallIds : CallRpcSet(i)
    \/ \E i \in CallIds : CallRpcExpire(i)
    \/ \E c \in RpcConsumers : ConsumeRpcs(c)
    \/ \E c \in RpcConsumers : Blpop(c)
    \/ \E c \in RpcConsumers : Delete(c)
    \/ \E c \in RpcConsumers : BlpopConnectionClosed(c)
    \/ \E c \in RpcConsumers, applied \in BOOLEAN : DeleteConnectionClosed(c, applied)
    \/ \E c \in RpcConsumers : ConsumeRestart(c)
    \/ RpcTick

NextResult ==
    \/ \E i \in CallIds : SendResultLpush(i)
    \/ \E i \in CallIds : SendResultExpire(i)
    \/ \E i \in CallIds : ResultExpired(i)

(***************************************************************************)
(* Strings are sequences of characters; a Python int is the sequence of    *)
(* its decimal digits without leading zeros (it has no largest value).     *)
(***************************************************************************)
DigitChars == <<"0", "1", "2", "3", "4", "5", "6", "7", "8", "9">>
\* The character of a digit and the digit of a character.
CharOf(d) == DigitChars[d + 1]
ValOf(ch) == CHOOSE d \in 0..9 : DigitChars[d + 1] = ch

\* The digits of a natural number of the model.
RECURSIVE NatDigits(_)
NatDigits(n) == IF n < 10 THEN <<n>> ELSE NatDigits(n \div 10) \o <<n % 10>>

\* str.strip(): the string without the blanks at its ends.
RECURSIVE LStrip(_)
LStrip(s) == IF s # <<>> /\ Head(s) = " " THEN LStrip(Tail(s)) ELSE s
RECURSIVE RStrip(_)
RStrip(s) ==
    IF s # <<>> /\ s[Len(s)] = " " THEN RStrip(SubSeq(s, 1, Len(s) - 1)) ELSE s
Strip(s) == RStrip(LStrip(s))

\* Digits without leading zeros: the int they denote.
RECURSIVE StripZeros(_)
StripZeros(ds) ==
    IF Len(ds) > 1 /\ Head(ds) = 0 THEN StripZeros(Tail(ds)) ELSE ds

\* int(s) for a string of decimal digits, blanks around them allowed.
int(s) == StripZeros([i \in 1..Len(Strip(s)) |-> ValOf(Strip(s)[i])])
\* "{}".format(v) of an int
str(v) == [i \in 1..Len(v) |-> CharOf(v[i])]
\* "{:<width>d}".format(v): the digits, blanks before them up to width.
RECURSIVE PadLeft(_, _)
PadLeft(s, width) == IF Len(s) >= width THEN s ELSE PadLeft(<<" ">> \o s, width)

\* v > 0 and v - 1 (for v > 0) on ints.
Positive(v) == v # <<0>>
MinusOneBad(v) == v \o <<1>>
RECURSIVE MinusOne(_)
MinusOne(v) ==
    LET last == v[Len(v)]
        front == SubSeq(v, 1, Len(v) - 1)
    IN  IF last > 0 THEN StripZeros(front \o <<last - 1>>)
        ELSE StripZeros(MinusOne(front) \o <<9>>)

\* s.startswith(prefix)
StartsWith(s, prefix) ==
    Len(s) >= Len(prefix) /\ SubSeq(s, 1, Len(prefix)) = prefix
\* The position of the first ch in s from position k on, 0 if there is none.
RECURSIVE Find(_, _, _)
Find(s, ch, k) ==
    IF k > Len(s) THEN 0 ELSE IF s[k] = ch THEN k ELSE Find(s, ch, k + 1)

(***************************************************************************)
(* RedisResultTransport.receive_result, with send_result called by the     *)
(* workers at any time.                                                    *)
(***************************************************************************)
\* The callers of receive_result: two wait for the result of call 1, one
\* for the result of call 2.
Receivers == {"c1", "c1b", "c2"}
RecvCall(r) == IF r = "c2" THEN 2 ELSE 1

\* rpc_message.procedure_name of call i.
ProcedureOf(i) == IF i % 2 = 1 THEN "check" ELSE "open"

\* The names of APIs and procedures as strings.
NameChars(name) ==
    CASE name = "auth" -> <<"a", "u", "t", "h">>
      [] name = "acct" -> <<"a", "c", "c", "t">>
      [] name = "check" -> <<"c", "h", "e", "c", "k">>
      [] name = "open" -> <<"o", "p", "e", "n">>
\* The rpc_message of call i.
RpcMessageOf(i) ==
    [api_name |-> NameChars(ApiOf(i)),
     procedure_name |-> NameChars(ProcedureOf(i)),
     id |-> str(NatDigits(i))]

\* "redis+key://" and ":result:"
KeyScheme == <<"r", "e", "d", "i", "s", "+", "k", "e", "y", ":", "/", "/">>
ResultInfix == <<":", "r", "e", "s", "u", "l", "t", ":">>

\* get_return_path: "redis+key://{}.{}:result:{}".format(api_name,
\* procedure_name, id)
get_return_pathBad(rpc_message) == KeyScheme \o ResultInfix
get_return_path(rpc_message) ==
    KeyScheme \o rpc_message.api_name \o <<".">> \o rpc_message.procedure_name
        \o ResultInfix \o rpc_message.id

\* return_path[12:]
SchemeLen == 12
FromBad(s, start) == SubSeq(s, start, Len(s))
From(s, start) == SubSeq(s, start + 1, Len(s))
\* _parse_return_path: assert return_path.startswith("redis+key://");
\* return return_path[12:]
AssertionError == <<"AssertionError">>
parse_return_path(return_path) ==
    IF StartsWith(return_path, KeyScheme) THEN From(return_path, SchemeLen)
    ELSE AssertionError
\* The call whose result list has the Redis key redis_key.
CallOfKey(redis_key) ==
    CHOOSE i \in CallIds :
        parse_return_path(get_return_path(RpcMessageOf(i))) = redis_key

InitReceive ==
    /\ recv_pc = [r \in Receivers |-> "idle"]
    /\ recv_wait = [r \in Receivers |-> 0]
    /\ recv_empty = [r \in Receivers |-> FALSE]
    /\ recv_result = [r \in Receivers |-> 0]

\* send_result(rpc_message, result_message, return_path) is called for call
\* i with the return path of its message.
SendResult(i) ==
    /\ send_pc[i] = "none"
    /\ send_pc' = [send_pc EXCEPT ![i] = "lpush"]
    /\ UNCHANGED <<notRpcVars, rpc_queue, expiry_key, result_key, call_pc, call_api,
                   consume_pc, consume_msg, consume_ret, rpc_losses, age, popped,
                   delivered, obs>>

\* receive_result(rpc_message, return_path, options) up to its first
\* `await redis.blpop(redis_key, timeout=self.rpc_timeout)`.
ReceiveResult(r) ==
    /\ recv_pc[r] = "idle"
    /\ recv_pc' = [recv_pc EXCEPT ![r] = "blpop"]
    /\ recv_wait' = [recv_wait EXCEPT ![r] = 0]
    /\ UNCHANGED <<notRecvVars, recv_empty, recv_result>>

\* `while not result`: the loop goes on after an empty reply.
LoopAgainBad(result) == FALSE
LoopAgain(result) == result = <<>>

\* BLPOP replies with the head of the list: `_, serialized = result`, the
\* message is deserialized and returned.
ReceiveBlpop(r) ==
    LET k == CallOfKey(parse_return_path(get_return_path(RpcMessageOf(RecvCall(r))))) IN
    /\ recv_pc[r] = "blpop"
    /\ result_key[k].items # <<>>
    /\ ~LoopAgain(<<Head(result_key[k].items)>>)
    /\ result_key' = [result_key EXCEPT ![k] =
                         IF Len(@.items) = 1 THEN [items |-> <<>>, ttl |-> "none"]
                         ELSE [@ EXCEPT !.items = Tail(@)]]
    /\ recv_result' = [recv_result EXCEPT ![r] = Head(result_key[k].items)]
    /\ recv_pc' = [recv_pc EXCEPT ![r] = "done"]
    /\ recv_wait' = [recv_wait EXCEPT ![r] = 0]
    /\ UNCHANGED <<cmVars, evVars, restVars, rpc_queue, expiry_key, call_pc, call_api,
                   consume_pc, consume_msg, consume_ret, send_pc, rpc_losses, age,
                   popped, delivered, obs, recv_empty>>

\* rpc_timeout has passed with the list empty: BLPOP replies None.  The
\* loop issues the next BLPOP, or ends without a result.
ReceiveBlpopTimeout(r) ==
    LET k == CallOfKey(parse_return_path(get_return_path(RpcMessageOf(RecvCall(r))))) IN
    /\ recv_pc[r] = "blpop"
    /\ result_key[k].items = <<>>
    /\ recv_wait[r] >= rpc_timeout
    /\ recv_wait' = [recv_wait EXCEPT ![r] = 0]
    /\ recv_empty' = [recv_empty EXCEPT ![r] = TRUE]
    /\ recv_pc' = [recv_pc EXCEPT ![r] = IF LoopAgain(<<>>) THEN "blpop" ELSE "done"]
    /\ UNCHANGED <<notRecvVars, recv_result>>

\* The caller cancels the task that awaits receive_result.
ReceiveCancelled(r) ==
    /\ recv_pc[r] = "blpop"
    /\ recv_pc' = [recv_pc EXCEPT ![r] = "cancelled"]
    /\ recv_wait' = [recv_wait EXCEPT ![r] = 0]
    /\ UNCHANGED <<notRecvVars, recv_empty, recv_result>>

\* One tick of the clock for the callers blocked in BLPOP.
RecvTick ==
    /\ \E r \in Receivers : recv_pc[r] = "blpop" /\ recv_wait[r] < rpc_timeout
    /\ recv_wait' = [r \in Receivers |->
                        IF recv_pc[r] = "blpop" /\ recv_wait[r] < rpc_timeout
                        THEN recv_wait[r] + 1 ELSE recv_wait[r]]
    /\ UNCHANGED <<notRecvVars, recv_pc, recv_empty, recv_result>>

NextReceive ==
    \/ \E i \in CallIds : SendResult(i)
    \/ \E i \in CallIds : SendResultLpush(i)
    \/ \E i \in CallIds : SendResultExpire(i)
    \/ \E i \in CallIds : ResultExpired(i)
    \/ \E r \in Receivers : ReceiveResult(r)
    \/ \E r \in Receivers : ReceiveBlpop(r)
    \/ \E r \in Receivers : ReceiveBlpopTimeout(r)
    \/ \E r \in Receivers : ReceiveCancelled(r)
    \/ RecvTick

(***************************************************************************)
(* RedisTransportMixin: set_redis_pool, connection_manager, close.         *)
(*                                                                         *)
(* One transport, used by tasks of two threads.  Tasks of one thread run   *)
(* on one event loop and interleave at the awaits only: the await of       *)
(* aioredis.create_redis_pool in connection_manager and the await of       *)
(* wait_closed in close.  self._local is thread-local, self._closed and    *)
(* self.connection_parameters are shared by the threads.                   *)
(***************************************************************************)

Threads == {"main", "other"}
Tasks == {"t1", "t2", "t3"}
\* t1 and t2 share the event loop of the constructing thread.
ThreadOf(t) == IF t = "t3" THEN "other" ELSE "main"
PoolIds == 1..(MaxCmOps + 1)

NoClosePost == [done |-> FALSE, ok |-> FALSE, closed |-> FALSE, bound |-> FALSE]

\* set_redis_pool: with redis_pool given, it is bound in the constructing
\* thread and connection_parameters is None; otherwise nothing is bound yet.
InitPool ==
    /\ cm_injected \in BOOLEAN
    /\ cm_closed = FALSE
    /\ cm_local = [th \in Threads |-> IF cm_injected /\ th = "main" THEN 1 ELSE 0]
    /\ cm_pools = [p \in PoolIds |-> IF cm_injected /\ p = 1 THEN "open" ELSE "none"]
    /\ cm_pc = [t \in Tasks |-> "idle"]
    /\ cm_pool = [t \in Tasks |-> 0]
    /\ cm_outcome = [t \in Tasks |-> "none"]
    /\ cm_ops = 0
    /\ cm_entered_closed = [t \in Tasks |-> FALSE]
    /\ cm_was_closed = FALSE
    /\ close_init = [p \in PoolIds |-> 0]
    /\ close_overlap = FALSE
    /\ close_post = [t \in Tasks |-> NoClosePost]

\* The next unused pool id.
NewPool == CHOOSE p \in PoolIds : cm_pools[p] = "none" /\ \A q \in PoolIds : q < p => cm_pools[q] # "none"

\* `await self._local.redis_pool`: a connection of pool p, or PoolClosedError
\* (raised as LightbusShutdownInProgress) once pool.close() has been called.
AcquireOutcome(p) == IF cm_pools[p] = "open" THEN "ok" ELSE "LightbusShutdownInProgress"

\* The check `if self._closed` at the top of connection_manager.
ClosedCheckBad(closed) == FALSE
ClosedCheck(closed) == closed

\* `if self.connection_parameters is None`: set_redis_pool leaves no
\* parameters when it was given a pool.
ParametersIsNoneBad(injected) == FALSE
ParametersIsNone(injected) == injected

\* connection_manager() up to its first await or its end.
ConnectionManager(t) ==
    LET th == ThreadOf(t) IN
    /\ cm_pc[t] = "idle"
    /\ cm_ops < MaxCmOps
    /\ cm_ops' = cm_ops + 1
    /\ cm_entered_closed' = [cm_entered_closed EXCEPT ![t] = cm_closed]
    /\ IF ClosedCheck(cm_closed)
       THEN /\ cm_outcome' = [cm_outcome EXCEPT ![t] = "TransportIsClosed"]
            /\ UNCHANGED <<cm_pc, cm_pool>>
       ELSE IF cm_local[th] = 0
       THEN IF ParametersIsNone(cm_injected)
            THEN \* connection_parameters is None: raise Exception(...)
                 /\ cm_outcome' = [cm_outcome EXCEPT ![t] = "Exception"]
                 /\ UNCHANGED <<cm_pc, cm_pool>>
            ELSE \* await aioredis.create_redis_pool(**connection_parameters)
                 /\ cm_pc' = [cm_pc EXCEPT ![t] = "creating"]
                 /\ cm_outcome' = [cm_outcome EXCEPT ![t] = "none"]
                 /\ UNCHANGED cm_pool
       ELSE /\ cm_outcome' = [cm_outcome EXCEPT ![t] = AcquireOutcome(cm_local[th])]
            /\ IF AcquireOutcome(cm_local[th]) = "ok"
               THEN /\ cm_pc' = [cm_pc EXCEPT ![t] = "holding"]
                    /\ cm_pool' = [cm_pool EXCEPT ![t] = cm_local[th]]
               ELSE UNCHANGED <<cm_pc, cm_pool>>
    /\ UNCHANGED <<notCmVars, cm_injected, cm_closed, cm_local, cm_pools, cm_was_closed,
                   close_init, close_overlap, close_post>>

\* create_redis_pool has returned: self._local.redis_pool = <the new pool>,
\* then `return await self._local.redis_pool`.
PoolCreated(t) ==
    LET th == ThreadOf(t)
        p == NewPool
    IN
    /\ cm_pc[t] = "creating"
    /\ cm_pools' = [cm_pools EXCEPT ![p] = "open"]
    /\ cm_local' = [cm_local EXCEPT ![th] = p]
    /\ cm_pc' = [cm_pc EXCEPT ![t] = "holding"]
    /\ cm_pool' = [cm_pool EXCEPT ![t] = p]
    /\ cm_outcome' = [cm_outcome EXCEPT ![t] = "ok"]
    /\ UNCHANGED <<notCmVars, cm_injected, cm_closed, cm_ops, cm_entered_closed,
                   cm_was_closed, close_init, close_overlap, close_post>>

\* The end of the `with await self.connection_manager() as redis` block: the
\* connection goes back to its pool.
Release(t) ==
    /\ cm_pc[t] = "holding"
    /\ cm_pc' = [cm_pc EXCEPT ![t] = "idle"]
    /\ cm_pool' = [cm_pool EXCEPT ![t] = 0]
    /\ UNCHANGED <<notCmVars, cm_injected, cm_closed, cm_local, cm_pools, cm_outcome,
                   cm_ops, cm_entered_closed, cm_was_closed, close_init,
                   close_overlap, close_post>>

\* self._local after `del self._local.redis_pool` in thread th.
DelPoolBad(local, th) == local
DelPool(local, th) == [local EXCEPT ![th] = 0]

\* close() up to its await: with a pool bound, redis_pool.close() and
\* `await redis_pool.wait_closed()`; with none, straight to _closed = True.
Close(t) ==
    LET th == ThreadOf(t)
        p == cm_local[th]
    IN
    /\ cm_pc[t] = "idle"
    /\ cm_ops < MaxCmOps
    /\ cm_ops' = cm_ops + 1
    /\ close_overlap' = (close_overlap \/ \E u \in Tasks : cm_pc[u] = "close_wait")
    /\ IF p # 0
       THEN /\ cm_pools' = [cm_pools EXCEPT ![p] = IF @ = "open" THEN "closing" ELSE @]
            /\ close_init' = [close_init EXCEPT ![p] = @ + 1]
            /\ cm_pc' = [cm_pc EXCEPT ![t] = "close_wait"]
            /\ cm_pool' = [cm_pool EXCEPT ![t] = p]
            /\ cm_outcome' = [cm_outcome EXCEPT ![t] = "none"]
            /\ close_post' = [close_post EXCEPT ![t] = NoClosePost]
            /\ UNCHANGED <<cm_closed, cm_was_closed>>
       ELSE /\ cm_closed' = TRUE
            /\ cm_was_closed' = TRUE
            /\ cm_outcome' = [cm_outcome EXCEPT ![t] = "closed"]
            /\ close_post' = [close_post EXCEPT ![t] =
                                [done |-> TRUE, ok |-> TRUE, closed |-> TRUE,
                                 bound |-> cm_local[th] # 0]]
            /\ UNCHANGED <<cm_pools, close_init, cm_pc, cm_pool>>
    /\ cm_entered_closed' = [cm_entered_closed EXCEPT ![t] = FALSE]
    /\ UNCHANGED <<notCmVars, cm_injected, cm_local>>

\* aioredis: a pool whose close() was called has closed its connections.
PoolWaitClosed(p) ==
    /\ cm_pools[p] = "closing"
    /\ cm_pools' = [cm_pools EXCEPT ![p] = "closed"]
    /\ UNCHANGED <<notCmVars, cm_injected, cm_closed, cm_local, cm_pc, cm_pool, cm_outcome,
                   cm_ops, cm_entered_closed, cm_was_closed, close_init,
                   close_overlap, close_post>>

\* `await self._local.redis_pool.wait_closed()` returns once the pool has
\* closed its connections.
WaitClosedBad(pool) == TRUE
WaitClosed(pool) == pool = "closed"

\* wait_closed() has returned: `del self._local.redis_pool` (AttributeError
\* when the attribute is gone), then self._closed = True.
CloseFinish(t) ==
    LET th == ThreadOf(t) IN
    /\ cm_pc[t] = "close_wait"
    /\ WaitClosed(cm_pools[cm_pool[t]])
    /\ cm_pc' = [cm_pc EXCEPT ![t] = "idle"]
    /\ cm_pool' = [cm_pool EXCEPT ![t] = 0]
    /\ IF cm_local[th] = 0
       THEN /\ cm_outcome' = [cm_outcome EXCEPT ![t] = "AttributeError"]
            /\ close_post' = [close_post EXCEPT ![t] =
                                [done |-> TRUE, ok |-> FALSE, closed |-> cm_closed,
                                 bound |-> FALSE]]
            /\ UNCHANGED <<cm_local, cm_closed, cm_was_closed>>
       ELSE /\ cm_local' = DelPool(cm_local, th)
            /\ cm_closed' = TRUE
            /\ cm_was_closed' = TRUE
            /\ cm_outcome' = [cm_outcome EXCEPT ![t] = "closed"]
            /\ close_post' = [close_post EXCEPT ![t] =
                                [done |-> TRUE, ok |-> TRUE, closed |-> TRUE,
                                 bound |-> cm_local'[th] # 0]]
    /\ UNCHANGED <<notCmVars, cm_injected, cm_pools, cm_ops, cm_entered_closed, close_init,
                   close_overlap>>

NextPool ==
    \/ \E t \in Tasks : ConnectionManager(t)
    \/ \E t \in Tasks : PoolCreated(t)
    \/ \E t \in Tasks : Release(t)
    \/ \E t \in Tasks : Close(t)
    \/ \E p \in PoolIds : PoolWaitClosed(p)
    \/ \E t \in Tasks : CloseFinish(t)

\* The caller that creates, opens and closes transports one after another.
Caller == "t1"

\* The next transport of the sequence is constructed once the one before it
\* is closed: set_redis_pool gives it a new self._local and _closed = False.
\* With redis_pool given, the caller has made that pool with
\* aioredis.create_redis_pool and it is bound in the constructing thread.
NewTransport(injected) ==
    /\ cm_closed
    /\ cm_ops < MaxCmOps
    /\ \A t \in Tasks : cm_pc[t] = "idle"
    /\ cm_injected' = injected
    /\ cm_closed' = FALSE
    /\ cm_local' = [th \in Threads |->
                      IF injected /\ th = ThreadOf(Caller) THEN NewPool ELSE 0]
    /\ cm_pools' = IF injected THEN [cm_pools EXCEPT ![NewPool] = "open"]
                   ELSE cm_pools
    /\ cm_outcome' = [t \in Tasks |-> "none"]
    /\ cm_entered_closed' = [t \in Tasks |-> FALSE]
    /\ cm_was_closed' = FALSE
    /\ close_overlap' = FALSE
    /\ close_post' = [t \in Tasks |-> NoClosePost]
    /\ UNCHANGED <<notCmVars, cm_pc, cm_pool, cm_ops, close_init>>

\* A sequence of transports, each constructed, opened (its first
\* connection_manager() call; none is needed) and closed by one caller.
NextPoolSeq ==
    \/ \E injected \in BOOLEAN : NewTransport(injected)
    \/ ConnectionManager(Caller)
    \/ PoolCreated(Caller)
    \/ Release(Caller)
    \/ Close(Caller)
    \/ \E p \in PoolIds : PoolWaitClosed(p)
    \/ CloseFinish(Caller)

(***************************************************************************)
(* Event transport: configuration and Redis streams.                       *)
(*                                                                         *)
(* Time is counted in ticks of one millisecond, the unit of the idle time  *)
(* Redis keeps for a pending entry.                                        *)
(***************************************************************************)
\* consumer_name of the transports consuming in the one consumer group.
EvConsumers == {"A", "B"}
\* The API and the events that producers fire on it.
EvApis == {"acct"}
EventNames == {"opened", "closed"}
\* listen_for of every consume() call: one (api_name, event_name) pair, for
\* one event (the usual case here) or for every event of the API.
ListenOpened == << <<"acct", "opened">> >>
ListenStar == << <<"acct", "*">> >>
ListenFor == ev_conf.listen_for
\* stream_use: "per_api" (the default) or "per_event".
stream_use == ev_conf.stream_use
\* since of every consume() call, after normalise_since_value: "$" (the
\* default) or "0".
Since == ev_conf.since
\* forever of every consume() call.
forever == ev_conf.forever
\* The configurations, and the one of the defaults.
EvConfs == [stream_use : {"per_api", "per_event"}, since : {"$", "0"},
            forever : BOOLEAN, listen_for : {ListenOpened}]
DefaultConf == [stream_use |-> "per_api", since |-> "$", forever |-> TRUE,
                listen_for |-> ListenOpened]
\* acknowledgement_timeout * 1000, the `timeout` of _reclaim_lost_messages,
\* in half milliseconds: 3 is a timeout of 1.5 ms.
TimeoutHalfMs == 3
\* reclaim_batch_size if given, else batch_size * 10.
reclaim_batch_size == batch_size * 10

\* int(timeout): the min-idle-time handed to XCLAIM, in milliseconds.
IntTimeout == TimeoutHalfMs \div 2
\* ms_since_last_delivery > timeout
TimedOut(ms_since_last_delivery) == 2 * ms_since_last_delivery > TimeoutHalfMs
\* asyncio.sleep(acknowledgement_timeout) ends once that much time has
\* passed: the number of whole ticks it takes.
ReclaimSleepTicks == (TimeoutHalfMs + 1) \div 2
\* Idle times are counted up to the first value beyond every threshold.
IdleCap == IntTimeout + 1

\* The name of the stream of an event: "<api>.<event>:stream" or
\* "<api>.*:stream", written as the pair of its parts.
StreamName(api_name, event_name) ==
    IF stream_use = "per_event" THEN <<api_name, event_name>>
    ELSE <<api_name, "*">>

\* _get_stream_names, from pair k of listen_for on, `names` collected so far.
RECURSIVE GetStreamNamesFrom(_, _, _)
GetStreamNamesFrom(listen_for, k, names) ==
    IF k > Len(listen_for) THEN names
    ELSE LET stream_name == StreamName(listen_for[k][1], listen_for[k][2])
         IN  IF \E j \in 1..Len(names) : names[j] = stream_name
             THEN GetStreamNamesFrom(listen_for, k + 1, names)
             ELSE GetStreamNamesFrom(listen_for, k + 1, Append(names, stream_name))

get_stream_names(listen_for) == GetStreamNamesFrom(listen_for, 1, <<>>)

\* stream_names and expected_events of consume().
stream_names == get_stream_names(ListenFor)
expected_events == {ListenFor[k][2] : k \in 1..Len(ListenFor)}

\* Every stream of the model, under either stream_use.
Streams == {<<a, e>> : a \in EvApis, e \in EventNames \cup {"*"}}
\* The streams that consume() reads.
Consumed(s) == \E k \in 1..Len(stream_names) : stream_names[k] = s

\* The fields of the noop entry {"": ""} and of a serialized event message.
Noop == [api_name |-> "", event_name |-> ""]
Fields(api_name, event_name) == [api_name |-> api_name, event_name |-> event_name]

\* _fields_to_message: None for the noop entry and, under per-API streams,
\* for an event that is not listened for; else the deserialized message.
None == [api_name |-> "", event_name |-> "", native_id |-> 0]
\* want_message: "*" is expected, or the event name is.
WantMessageBad(expected_event_names, event_name) ==
    event_name \in expected_event_names
WantMessage(expected_event_names, event_name) ==
    \/ "*" \in expected_event_names
    \/ event_name \in expected_event_names
fields_to_messageBad(fields, expected_event_names, native_id) ==
    LET message == [api_name |-> fields.api_name,
                    event_name |-> fields.event_name,
                    native_id |-> native_id]
        want_message == WantMessage(expected_event_names, message.event_name)
    IN  IF stream_use = "per_api" /\ ~want_message THEN None ELSE message
fields_to_message(fields, expected_event_names, native_id) ==
    IF fields = Noop THEN None
    ELSE LET message == [api_name |-> fields.api_name,
                         event_name |-> fields.event_name,
                         native_id |-> native_id]
             want_message == WantMessage(expected_event_names, message.event_name)
         IN  IF stream_use = "per_api" /\ ~want_message THEN None ELSE message

\* The ids of a set of pending entries, and of those owned by consumer c.
PelIds(pel) == {p.id : p \in pel}
OwnIds(pel, c) == {p.id : p \in {q \in pel : q.consumer = c}}

\* The elements of a set of ids in increasing order.
RECURSIVE SortedSeq(_)
SortedSeq(S) ==
    IF S = {} THEN <<>>
    ELSE LET m == CHOOSE x \in S : \A y \in S : x <= y
         IN  <<m>> \o SortedSeq(S \ {m})

\* What a task hands to the queue: (message, stream), the message being its
\* native id.
NoItem == [stream |-> <<"", "">>, id |-> 0]
Item(stream, id) == [stream |-> stream, id |-> id]

\* A consume() session that is not running.
FetchOff == [pc |-> "off", k |-> 1, batch |-> <<>>, phase |-> "", item |-> NoItem,
             last |-> NoItem]
ReclaimOff == [pc |-> "off", k |-> 1, timer |-> 0, old |-> <<>>, item |-> NoItem]
QueueEmpty == [items |-> <<>>, unfinished |-> 0]
GenOff == [pc |-> "off", cur |-> NoItem]

\* No stream exists, no consumer has started; the consumers will run with
\* any one configuration.
InitEventAny ==
    /\ ev_conf \in EvConfs
    /\ ev_stream = [s \in Streams |-> <<>>]
    /\ ev_group = [s \in Streams |-> [exists |-> FALSE, start |-> 0, last |-> 0]]
    /\ ev_pel = [s \in Streams |-> {}]
    /\ ev_sent = 0
    /\ ev_faults = 0
    /\ ev_fetch = [c \in EvConsumers |-> FetchOff]
    /\ ev_reclaim = [c \in EvConsumers |-> ReclaimOff]
    /\ ev_queue = [c \in EvConsumers |-> QueueEmpty]
    /\ ev_gen = [c \in EvConsumers |-> GenOff]

\* No stream exists, no consumer has started; the configuration is the
\* default one.
InitEvent ==
    /\ ev_conf = DefaultConf
    /\ ev_stream = [s \in Streams |-> <<>>]
    /\ ev_group = [s \in Streams |-> [exists |-> FALSE, start |-> 0, last |-> 0]]
    /\ ev_pel = [s \in Streams |-> {}]
    /\ ev_sent = 0
    /\ ev_faults = 0
    /\ ev_fetch = [c \in EvConsumers |-> FetchOff]
    /\ ev_reclaim = [c \in EvConsumers |-> ReclaimOff]
    /\ ev_queue = [c \in EvConsumers |-> QueueEmpty]
    /\ ev_gen = [c \in EvConsumers |-> GenOff]

\* A producer has fired one event before the first consumer of the group
\* starts: the stream exists and the event lies before the group's start
\* position.
InitEventSent ==
    /\ ev_conf = DefaultConf
    /\ ev_stream = [s \in Streams |->
                      IF s = <<"acct", "*">> THEN <<Fields("acct", "opened")>>
                      ELSE <<>>]
    /\ ev_group = [s \in Streams |-> [exists |-> FALSE, start |-> 0, last |-> 0]]
    /\ ev_pel = [s \in Streams |-> {}]
    /\ ev_sent = 1
    /\ ev_faults = 0
    /\ ev_fetch = [c \in EvConsumers |-> FetchOff]
    /\ ev_reclaim = [c \in EvConsumers |-> ReclaimOff]
    /\ ev_queue = [c \in EvConsumers |-> QueueEmpty]
    /\ ev_gen = [c \in EvConsumers |-> GenOff]

\* Whether consumer c has a consume() session running; a session that is
\* over leaves behind how it ended: "closed" (the caller closed the
\* generator), "failed" (an error left it), "dead" (the process died).
Running(c) == ev_gen[c].pc \in {"get", "yielded", "finally"}

\* The consumers are interchangeable: the first session of the group is A's.
Earlier(c) == IF c = "B" THEN {"A"} ELSE {}

(***************************************************************************)
(* RedisEventTransport.send_event                                          *)
(***************************************************************************)
\* XADD: the new entry gets the next id of the stream.
Xadd(stream, fields) == Append(stream, fields)

SendEvent(api_name, event_name) ==
    /\ ev_sent < MaxEvents
    /\ LET stream == get_stream_names(<< <<api_name, event_name>> >>)[1]
       IN  ev_stream' = [ev_stream EXCEPT
                           ![stream] = Xadd(@, Fields(api_name, event_name))]
    /\ ev_sent' = ev_sent + 1
    /\ UNCHANGED <<notEvVars, ev_group, ev_pel, ev_faults, ev_fetch,
                   ev_reclaim, ev_queue, ev_gen>>

(***************************************************************************)
(* RedisEventTransport.consume: the start of a session.                    *)
(***************************************************************************)
\* consume() up to the first await of its generator: the queue is made, the
\* two tasks are scheduled, the generator waits in queue.get().
StartConsume(c) ==
    /\ ~Running(c)
    /\ \A d \in Earlier(c) : ev_gen[d].pc # "off"
    /\ ev_fetch' = [ev_fetch EXCEPT ![c] = [FetchOff EXCEPT !.pc = "exists"]]
    /\ ev_reclaim' = [ev_reclaim EXCEPT ![c] =
                        [ReclaimOff EXCEPT !.pc = "sleep",
                                           !.timer = ReclaimSleepTicks]]
    /\ ev_queue' = [ev_queue EXCEPT ![c] = QueueEmpty]
    /\ ev_gen' = [ev_gen EXCEPT ![c] = [GenOff EXCEPT !.pc = "get"]]
    /\ UNCHANGED <<notEvVars, ev_stream, ev_group, ev_pel, ev_sent, ev_faults>>

(***************************************************************************)
(* The queue between the two tasks and the generator.                      *)
(***************************************************************************)
\* asyncio.Queue(maxsize=1)
QueueMaxsize == 1
QueueFull(q) == Len(q.items) >= QueueMaxsize
\* queue.put: the item is queued and counted as an unfinished task.
QueuePut(q, item) == [items |-> Append(q.items, item), unfinished |-> q.unfinished + 1]
\* queue.join returns when every item put has been marked done.
QueueJoinedBad(q) == TRUE
QueueJoined(q) == q.unfinished = 0
\* queue.task_done()
QueueTaskDoneBad(q) == [q EXCEPT !.unfinished = 0]
QueueTaskDone(q) == [q EXCEPT !.unfinished = @ - 1]

\* await queue.put(item) by a task that has a message to hand over (pc
\* "put"): put does not suspend the task unless the queue is full, so the
\* task goes straight on to queue.join(); with the queue full it waits in put.
TaskAfterPut(t, q) ==
    IF t.pc = "put" /\ ~QueueFull(q) THEN [t EXCEPT !.pc = "join", !.item = NoItem]
    ELSE t
QueueAfterPut(t, q) ==
    IF t.pc = "put" /\ ~QueueFull(q) THEN QueuePut(q, t.item) ELSE q

(***************************************************************************)
(* consume_loop and _fetch_new_messages: the fetch task.                   *)
(***************************************************************************)
\* The entries of a reply from `batch` on, up to the first one that
\* _fields_to_message turns into a message (`continue` for the others).
RECURSIVE SkipUnwanted(_, _)
SkipUnwanted(streams, batch) ==
    IF batch = <<>> THEN <<>>
    ELSE LET m == Head(batch)
         IN  IF fields_to_message(streams[m.stream][m.id], expected_events, m.id) # None
             THEN batch
             ELSE SkipUnwanted(streams, Tail(batch))

\* The fetch task after a reply: it yields the first wanted message of the
\* reply to consume_loop, which goes to queue.put; after the last message
\* of the pending backlog it reads new messages, and after the last of a
\* batch of new messages it reads again (forever) or returns, on which
\* consume_loop calls _fetch_new_messages anew.
FetchAdvance(f, streams, batch, phase) ==
    LET rest == SkipUnwanted(streams, batch)
    IN  IF rest = <<>>
        THEN [f EXCEPT !.pc = IF phase = "pending" \/ forever THEN "new" ELSE "exists",
                       !.k = 1, !.batch = <<>>, !.phase = phase, !.item = NoItem]
        ELSE [f EXCEPT !.pc = "put", !.batch = Tail(rest), !.phase = phase,
                       !.item = Item(Head(rest).stream, Head(rest).id),
                       !.last = Item(Head(rest).stream, Head(rest).id)]

\* _create_consumer_groups: redis.exists(stream)
FetchExists(c) ==
    /\ ev_fetch[c].pc = "exists"
    /\ LET stream == stream_names[ev_fetch[c].k]
       IN  ev_fetch' = [ev_fetch EXCEPT ![c].pc =
                          IF ev_stream[stream] # <<>> THEN "xgroup" ELSE "xadd"]
    /\ UNCHANGED <<notEvVars, ev_stream, ev_group, ev_pel, ev_sent, ev_faults,
                   ev_reclaim, ev_queue, ev_gen>>

\* _create_consumer_groups: redis.xadd(stream, fields={"": ""})
FetchXaddNoop(c) ==
    /\ ev_fetch[c].pc = "xadd"
    /\ ev_stream' = [ev_stream EXCEPT ![stream_names[ev_fetch[c].k]] = Xadd(@, Noop)]
    /\ ev_fetch' = [ev_fetch EXCEPT ![c].pc = "xgroup"]
    /\ UNCHANGED <<notEvVars, ev_group, ev_pel, ev_sent, ev_faults, ev_reclaim,
                   ev_queue, ev_gen>>

\* XGROUP CREATE: a new group starts after the last entry for "$" and before
\* the first one for "0"; an existing group is left alone (BUSYGROUP).
XgroupCreateBad(group, stream, latest_id) ==
    LET start == IF latest_id = "$" THEN Len(stream) ELSE 0
    IN  [exists |-> TRUE, start |-> start, last |-> start]
XgroupCreate(group, stream, latest_id) ==
    IF group.exists THEN group
    ELSE LET start == IF latest_id = "$" THEN Len(stream) ELSE 0
         IN  [exists |-> TRUE, start |-> start, last |-> start]

\* _create_consumer_groups: redis.xgroup_create(stream, consumer_group,
\* latest_id=since), the BUSYGROUP error swallowed; then the next stream, or
\* on to the read of the pending backlog.
FetchXgroupCreate(c) ==
    /\ ev_fetch[c].pc = "xgroup"
    /\ LET stream == stream_names[ev_fetch[c].k]
       IN  ev_group' = [ev_group EXCEPT
                          ![stream] = XgroupCreate(@, ev_stream[stream], Since)]
    /\ ev_fetch' = [ev_fetch EXCEPT ![c] =
                      IF ev_fetch[c].k < Len(stream_names)
                      THEN [@ EXCEPT !.pc = "exists", !.k = @ + 1]
                      ELSE [@ EXCEPT !.pc = "pending", !.k = 1]]
    /\ UNCHANGED <<notEvVars, ev_stream, ev_pel, ev_sent, ev_faults, ev_reclaim,
                   ev_queue, ev_gen>>

\* XREADGROUP with id "0": the reply is the consumer's own pending entries
\* of the streams from the k-th on, in id order within a stream.
RECURSIVE PendingReply(_, _, _)
PendingReply(pel, c, k) ==
    IF k > Len(stream_names) THEN <<>>
    ELSE LET stream == stream_names[k]
             ids == SortedSeq(OwnIds(pel[stream], c))
         IN  [i \in 1..Len(ids) |-> [stream |-> stream, id |-> ids[i]]]
             \o PendingReply(pel, c, k + 1)

\* XREADGROUP with id "0" counts as a delivery: the idle time of the entries
\* it returns starts again.
PelAfterPending(pel, c) ==
    [s \in Streams |->
        {IF p.consumer = c THEN [p EXCEPT !.idle = 0] ELSE p : p \in pel[s]}]

\* redis.xread_group(..., latest_ids=["0"] * len(streams), timeout=None),
\* up to the put of the first message of the reply.
FetchReadPending(c) ==
    /\ ev_fetch[c].pc = "pending"
    /\ ev_pel' = PelAfterPending(ev_pel, c)
    /\ LET f == FetchAdvance(ev_fetch[c], ev_stream, PendingReply(ev_pel, c, 1),
                             "pending")
       IN  /\ ev_fetch' = [ev_fetch EXCEPT ![c] = TaskAfterPut(f, ev_queue[c])]
           /\ ev_queue' = [ev_queue EXCEPT ![c] = QueueAfterPut(f, @)]
    /\ UNCHANGED <<notEvVars, ev_stream, ev_group, ev_sent, ev_faults, ev_reclaim,
                   ev_gen>>

\* XREADGROUP with id ">" and COUNT count: of every stream the entries after
\* the last one delivered to the group, at most count of them.
NewIds(stream, group, count) ==
    {i \in 1..Len(stream) : i > group.last /\ i <= group.last + count}

RECURSIVE NewReply(_, _, _, _)
NewReply(streams, groups, count, k) ==
    IF k > Len(stream_names) THEN <<>>
    ELSE LET stream == stream_names[k]
             ids == SortedSeq(NewIds(streams[stream], groups[stream], count))
         IN  [i \in 1..Len(ids) |-> [stream |-> stream, id |-> ids[i]]]
             \o NewReply(streams, groups, count, k + 1)

\* The entries of such a reply become pending for the consumer, idle for 0 ms.
PelAfterNew(pel, streams, groups, count, c) ==
    [s \in Streams |->
        IF Consumed(s)
        THEN pel[s] \cup {[id |-> i, consumer |-> c, idle |-> 0] :
                             i \in NewIds(streams[s], groups[s], count)}
        ELSE pel[s]]

GroupsAfterNew(streams, groups, count) ==
    [s \in Streams |->
        LET ids == NewIds(streams[s], groups[s], count)
        IN  IF ids = {} \/ ~Consumed(s) THEN groups[s]
            ELSE [groups[s] EXCEPT !.last = @ + Cardinality(ids)]]

\* redis.xread_group(..., latest_ids=[">"] * len(streams), count=batch_size):
\* blocks until a stream has a new entry; up to the put of the first message
\* of the reply.
FetchReadNew(c) ==
    /\ ev_fetch[c].pc = "new"
    /\ NewReply(ev_stream, ev_group, batch_size, 1) # <<>>
    /\ ev_pel' = PelAfterNew(ev_pel, ev_stream, ev_group, batch_size, c)
    /\ ev_group' = GroupsAfterNew(ev_stream, ev_group, batch_size)
    /\ LET f == FetchAdvance(ev_fetch[c], ev_stream,
                             NewReply(ev_stream, ev_group, batch_size, 1), "new")
       IN  /\ ev_fetch' = [ev_fetch EXCEPT ![c] = TaskAfterPut(f, ev_queue[c])]
           /\ ev_queue' = [ev_queue EXCEPT ![c] = QueueAfterPut(f, @)]
    /\ UNCHANGED <<notEvVars, ev_stream, ev_sent, ev_faults, ev_reclaim, ev_gen>>

\* consume_loop: await queue.put((message, stream)) goes on after it had to
\* wait for room in the queue.
FetchPut(c) ==
    /\ ev_fetch[c].pc = "put"
    /\ ~QueueFull(ev_queue[c])
    /\ ev_fetch' = [ev_fetch EXCEPT ![c] = TaskAfterPut(@, ev_queue[c])]
    /\ ev_queue' = [ev_queue EXCEPT ![c] = QueueAfterPut(ev_fetch[c], @)]
    /\ UNCHANGED <<notEvVars, ev_stream, ev_group, ev_pel, ev_sent, ev_faults,
                   ev_reclaim, ev_gen>>

\* consume_loop: await queue.join() returns; then the next message of the
\* reply, up to its put.
FetchJoin(c) ==
    /\ ev_fetch[c].pc = "join"
    /\ QueueJoined(ev_queue[c])
    /\ LET f == FetchAdvance(ev_fetch[c], ev_stream, ev_fetch[c].batch,
                             ev_fetch[c].phase)
       IN  /\ ev_fetch' = [ev_fetch EXCEPT ![c] = TaskAfterPut(f, ev_queue[c])]
           /\ ev_queue' = [ev_queue EXCEPT ![c] = QueueAfterPut(f, @)]
    /\ UNCHANGED <<notEvVars, ev_stream, ev_group, ev_pel, ev_sent, ev_faults,
                   ev_reclaim, ev_gen>>

\* A Redis command of the fetch task ends in ConnectionClosedError;
\* consume_loop catches it and sleeps.  An XREADGROUP whose reply is lost
\* may have run on the server (applied) or not.
FetchConnectionClosed(c, applied) ==
    /\ ev_fetch[c].pc \in {"exists", "xadd", "xgroup", "pending", "new"}
    /\ ev_faults < MaxFaults
    /\ ev_faults' = ev_faults + 1
    /\ IF applied /\ ev_fetch[c].pc = "pending"
       THEN /\ ev_pel' = PelAfterPending(ev_pel, c)
            /\ UNCHANGED ev_group
       ELSE IF applied /\ ev_fetch[c].pc = "new"
       THEN /\ ev_pel' = PelAfterNew(ev_pel, ev_stream, ev_group, batch_size, c)
            /\ ev_group' = GroupsAfterNew(ev_stream, ev_group, batch_size)
       ELSE UNCHANGED <<ev_pel, ev_group>>
    /\ ev_fetch' = [ev_fetch EXCEPT ![c] = [FetchOff EXCEPT !.pc = "sleep",
                                                           !.last = ev_fetch[c].last]]
    /\ UNCHANGED <<notEvVars, ev_stream, ev_sent, ev_reclaim, ev_queue, ev_gen>>

\* consume_loop: asyncio.sleep(consumption_restart_delay) is over; the loop
\* calls _fetch_new_messages again.
FetchRestart(c) ==
    /\ ev_fetch[c].pc = "sleep"
    /\ ev_fetch' = [ev_fetch EXCEPT ![c].pc = "exists"]
    /\ UNCHANGED <<notEvVars, ev_stream, ev_group, ev_pel, ev_sent, ev_faults,
                   ev_reclaim, ev_queue, ev_gen>>

(***************************************************************************)
(* reclaim_loop and _reclaim_lost_messages: the reclaim task.  It sleeps,  *)
(* makes one pass over the streams and ends; reclaim_loop has no loop.     *)
(***************************************************************************)
\* The reclaim task after a message: the next entry of old_messages, the
\* next stream when there is none, the end of the task after the last stream.
ReclaimAdvance(r, old) ==
    IF old # <<>> THEN [r EXCEPT !.pc = "xclaim", !.old = old, !.item = NoItem]
    ELSE IF r.k < Len(stream_names)
         THEN [r EXCEPT !.pc = "xpending", !.k = @ + 1, !.old = <<>>, !.item = NoItem]
         ELSE [r EXCEPT !.pc = "done", !.old = <<>>, !.item = NoItem]

\* reclaim_loop: asyncio.sleep(acknowledgement_timeout) is over.
ReclaimWake(c) ==
    /\ ev_reclaim[c].pc = "sleep"
    /\ ev_reclaim[c].timer = 0
    /\ ev_reclaim' = [ev_reclaim EXCEPT ![c].pc = "xpending", ![c].k = 1]
    /\ UNCHANGED <<notEvVars, ev_stream, ev_group, ev_pel, ev_sent, ev_faults,
                   ev_fetch, ev_queue, ev_gen>>

\* XPENDING stream group - + count: the ids of the pending entries of every
\* consumer of the group, in id order, at most count of them.
Xpending(pel, count) ==
    LET ids == SortedSeq(PelIds(pel))
    IN  SubSeq(ids, 1, IF Len(ids) < count THEN Len(ids) ELSE count)

\* redis.xpending(stream, consumer_group, "-", "+", count=reclaim_batch_size)
ReclaimXpending(c) ==
    /\ ev_reclaim[c].pc = "xpending"
    /\ LET stream == stream_names[ev_reclaim[c].k]
       IN  ev_reclaim' = [ev_reclaim EXCEPT ![c] =
                            ReclaimAdvance(@, Xpending(ev_pel[stream], reclaim_batch_size))]
    /\ UNCHANGED <<notEvVars, ev_stream, ev_group, ev_pel, ev_sent, ev_faults,
                   ev_fetch, ev_queue, ev_gen>>

\* XCLAIM's test of min-idle-time: Redis passes over an entry only when its
\* idle time is less than min-idle-time (t_stream.c: `if (this_idle <
\* minidle) continue;`), so an entry idle for exactly that long is claimed.
MinIdleReachedBad(idle, min_idle_time) == TRUE
MinIdleReached(idle, min_idle_time) == idle >= min_idle_time

\* XCLAIM stream group consumer min-idle-time id: the entries claimed, none
\* when the id is no longer pending or has not been idle for long enough.
XclaimResult(pel, min_idle_time, id) ==
    {p \in pel : p.id = id /\ MinIdleReached(p.idle, min_idle_time)}

\* A claimed entry belongs to the claiming consumer, idle for 0 ms.
PelAfterXclaim(pel, c, min_idle_time, id) ==
    LET result == XclaimResult(pel, min_idle_time, id)
    IN  (pel \ result) \cup {[id |-> p.id, consumer |-> c, idle |-> 0] : p \in result}

\* redis.xclaim(stream, consumer_group, self.consumer_name, int(timeout),
\* message_id) for the next entry of old_messages, whoever owns it and
\* however long it has been idle: the test `ms_since_last_delivery >
\* timeout` guards the log line alone.  A claimed entry that decodes to a
\* message is yielded to reclaim_loop, up to its put.
ReclaimXclaim(c) ==
    /\ ev_reclaim[c].pc = "xclaim"
    /\ LET r == ev_reclaim[c]
           stream == stream_names[r.k]
           message_id == Head(r.old)
           result == XclaimResult(ev_pel[stream], IntTimeout, message_id)
           wanted == {p \in result :
                        fields_to_message(ev_stream[stream][p.id], expected_events,
                                          p.id) # None}
           r2 == IF wanted = {} THEN ReclaimAdvance(r, Tail(r.old))
                 ELSE LET p == CHOOSE q \in wanted : TRUE
                      IN  [r EXCEPT !.pc = "put", !.old = Tail(r.old),
                                    !.item = Item(stream, p.id)]
       IN  /\ ev_pel' = [ev_pel EXCEPT
                           ![stream] = PelAfterXclaim(@, c, IntTimeout, message_id)]
           /\ ev_reclaim' = [ev_reclaim EXCEPT ![c] = TaskAfterPut(r2, ev_queue[c])]
           /\ ev_queue' = [ev_queue EXCEPT ![c] = QueueAfterPut(r2, @)]
    /\ UNCHANGED <<notEvVars, ev_stream, ev_group, ev_sent, ev_faults, ev_fetch,
                   ev_gen>>

\* reclaim_loop: await queue.put((message, stream)) goes on after it had to
\* wait for room in the queue.
ReclaimPut(c) ==
    /\ ev_reclaim[c].pc = "put"
    /\ ~QueueFull(ev_queue[c])
    /\ ev_reclaim' = [ev_reclaim EXCEPT ![c] = TaskAfterPut(@, ev_queue[c])]
    /\ ev_queue' = [ev_queue EXCEPT ![c] = QueueAfterPut(ev_reclaim[c], @)]
    /\ UNCHANGED <<notEvVars, ev_stream, ev_group, ev_pel, ev_sent, ev_faults,
                   ev_fetch, ev_gen>>

\* reclaim_loop: await queue.join() returns; then the next entry of
\* old_messages.
ReclaimJoin(c) ==
    /\ ev_reclaim[c].pc = "join"
    /\ QueueJoined(ev_queue[c])
    /\ ev_reclaim' = [ev_reclaim EXCEPT ![c] = ReclaimAdvance(@, ev_reclaim[c].old)]
    /\ UNCHANGED <<notEvVars, ev_stream, ev_group, ev_pel, ev_sent, ev_faults,
                   ev_fetch, ev_queue, ev_gen>>

(***************************************************************************)
(* consume: the generator and its caller.                                  *)
(***************************************************************************)
\* message, stream = await queue.get(); yield message
GenGet(c) ==
    /\ ev_gen[c].pc = "get"
    /\ ev_queue[c].items # <<>>
    /\ ev_gen' = [ev_gen EXCEPT ![c] = [pc |-> "yielded",
                                        cur |-> Head(ev_queue[c].items)]]
    /\ ev_queue' = [ev_queue EXCEPT ![c].items = Tail(@)]
    /\ UNCHANGED <<notEvVars, ev_stream, ev_group, ev_pel, ev_sent, ev_faults,
                   ev_fetch, ev_reclaim>>

\* XACK stream group id: the entry is no longer pending, whoever owned it.
XackBad(pel, id) == pel
Xack(pel, id) == {p \in pel : p.id # id}

\* The session is over: `finally: await cancel(fetch_task, reclaim_task)`,
\* the queue is dropped with the generator.
SessionOver(c, how) ==
    /\ ev_fetch' = [ev_fetch EXCEPT ![c] = FetchOff]
    /\ ev_reclaim' = [ev_reclaim EXCEPT ![c] = ReclaimOff]
    /\ ev_queue' = [ev_queue EXCEPT ![c] = QueueEmpty]
    /\ ev_gen' = [ev_gen EXCEPT ![c] = [GenOff EXCEPT !.pc = how]]

\* The caller has processed the message and resumes the generator:
\* await self._ack(stream, consumer_group, message.native_id);
\* queue.task_done(); yield True, from which the caller resumes it at once.
GenAck(c) ==
    /\ ev_gen[c].pc = "yielded"
    /\ LET cur == ev_gen[c].cur
       IN  ev_pel' = [ev_pel EXCEPT ![cur.stream] = Xack(@, cur.id)]
    /\ ev_queue' = [ev_queue EXCEPT ![c] = QueueTaskDone(@)]
    /\ ev_gen' = [ev_gen EXCEPT ![c] = [pc |-> "get", cur |-> NoItem]]
    /\ UNCHANGED <<notEvVars, ev_stream, ev_group, ev_sent, ev_faults, ev_fetch,
                   ev_reclaim>>

\* The caller resumes the generator and the XACK ends in
\* ConnectionClosedError, having run on the server (applied) or not: the
\* error leaves the generator through its finally clause.
GenAckConnectionClosed(c, applied) ==
    /\ ev_gen[c].pc = "yielded"
    /\ ev_faults < MaxFaults
    /\ ev_faults' = ev_faults + 1
    /\ LET cur == ev_gen[c].cur
       IN  ev_pel' = IF applied THEN [ev_pel EXCEPT ![cur.stream] = Xack(@, cur.id)]
                     ELSE ev_pel
    /\ SessionOver(c, "failed")
    /\ UNCHANGED <<notEvVars, ev_stream, ev_group, ev_sent>>

\* The caller closes the generator while it is suspended at `yield message`:
\* `except GeneratorExit: return`, then the finally clause.
GenClose(c) ==
    /\ ev_gen[c].pc = "yielded"
    /\ ev_faults < MaxFaults
    /\ ev_faults' = ev_faults + 1
    /\ SessionOver(c, "closed")
    /\ UNCHANGED <<notEvVars, ev_stream, ev_group, ev_pel, ev_sent>>

\* The process of consumer c dies, wherever its session is.
Crash(c) ==
    /\ Running(c)
    /\ ev_faults < MaxFaults
    /\ ev_faults' = ev_faults + 1
    /\ SessionOver(c, "dead")
    /\ UNCHANGED <<notEvVars, ev_stream, ev_group, ev_pel, ev_sent>>

\* One millisecond passes: pending entries grow idle, sleeps run down.
EvTick ==
    /\ ev_pel' = [s \in Streams |->
                    {IF p.idle < IdleCap THEN [p EXCEPT !.idle = @ + 1] ELSE p :
                        p \in ev_pel[s]}]
    /\ ev_reclaim' = [c \in EvConsumers |->
                        IF ev_reclaim[c].timer > 0
                        THEN [ev_reclaim[c] EXCEPT !.timer = @ - 1]
                        ELSE ev_reclaim[c]]
    /\ UNCHANGED <<notEvVars, ev_stream, ev_group, ev_sent, ev_faults, ev_fetch,
                   ev_queue, ev_gen>>

(***************************************************************************)
(* consume: the end of a session, `finally: await cancel(fetch_task,       *)
(* reclaim_task)`, step by step.  cancel() cancels each task it is given   *)
(* and awaits it before it goes on to the next.                            *)
(***************************************************************************)
\* The generator is not leaving.
NoExit == [how |-> "", k |-> 0]
InitExit == ev_exit = [c \in EvConsumers |-> NoExit]

\* The tasks the finally clause gives to cancel(), in order.
CancelArgsBad == <<"fetch_task">>
CancelArgs == <<"fetch_task", "reclaim_task">>

\* task.cancel(): a task that has not finished is to get CancelledError at
\* the await it is suspended in.
TaskFinished(t) == t.pc \in {"off", "done"}
TaskCancel(t, off) == IF TaskFinished(t) THEN t ELSE [off EXCEPT !.pc = "cancelling"]

\* cancel() from its k-th argument on, up to the next await: the task is
\* cancelled and awaited; after the last one cancel() returns, the error (or
\* the return) that runs the finally clause leaves the generator and the
\* queue is dropped with it.
Cancel(c, how, k) ==
    IF k <= Len(CancelArgs)
    THEN /\ ev_exit' = [ev_exit EXCEPT ![c] = [how |-> how, k |-> k]]
         /\ ev_gen' = [ev_gen EXCEPT ![c] = [GenOff EXCEPT !.pc = "finally"]]
         /\ ev_fetch' = [ev_fetch EXCEPT ![c] =
                           IF CancelArgs[k] = "fetch_task" THEN TaskCancel(@, FetchOff)
                           ELSE @]
         /\ ev_reclaim' = [ev_reclaim EXCEPT ![c] =
                             IF CancelArgs[k] = "reclaim_task"
                             THEN TaskCancel(@, ReclaimOff) ELSE @]
         /\ UNCHANGED ev_queue
    ELSE /\ ev_exit' = [ev_exit EXCEPT ![c] = NoExit]
         /\ ev_gen' = [ev_gen EXCEPT ![c] = [GenOff EXCEPT !.pc = how]]
         /\ ev_queue' = [ev_queue EXCEPT ![c] = QueueEmpty]
         /\ UNCHANGED <<ev_fetch, ev_reclaim>>

\* The caller closes the generator while it is suspended at `yield message`:
\* `except GeneratorExit: return`, then the finally clause.
GenLeaveClosed(c) ==
    /\ ev_gen[c].pc = "yielded"
    /\ ev_faults < MaxFaults
    /\ ev_faults' = ev_faults + 1
    /\ Cancel(c, "closed", 1)
    /\ UNCHANGED <<notExitVars, ev_stream, ev_group, ev_pel, ev_sent>>

\* The caller resumes the generator and the XACK ends in
\* ConnectionClosedError, having run on the server (applied) or not: the
\* error runs the finally clause.
GenLeaveFailed(c, applied) ==
    /\ ev_gen[c].pc = "yielded"
    /\ ev_faults < MaxFaults
    /\ ev_faults' = ev_faults + 1
    /\ LET cur == ev_gen[c].cur
       IN  ev_pel' = IF applied THEN [ev_pel EXCEPT ![cur.stream] = Xack(@, cur.id)]
                     ELSE ev_pel
    /\ Cancel(c, "failed", 1)
    /\ UNCHANGED <<notExitVars, ev_stream, ev_group, ev_sent>>

\* The task that iterates over the generator is cancelled while the
\* generator waits in queue.get(): CancelledError runs the finally clause.
GenLeaveCancelled(c) ==
    /\ ev_gen[c].pc = "get"
    /\ ev_faults < MaxFaults
    /\ ev_faults' = ev_faults + 1
    /\ Cancel(c, "cancelled", 1)
    /\ UNCHANGED <<notExitVars, ev_stream, ev_group, ev_pel, ev_sent>>

\* A cancelled task runs: CancelledError leaves its coroutine, the task has
\* finished.
FetchCancelled(c) ==
    /\ ev_fetch[c].pc = "cancelling"
    /\ ev_fetch' = [ev_fetch EXCEPT ![c] = FetchOff]
    /\ UNCHANGED <<notEvVars, ev_stream, ev_group, ev_pel, ev_sent, ev_faults,
                   ev_reclaim, ev_queue, ev_gen>>

ReclaimCancelled(c) ==
    /\ ev_reclaim[c].pc = "cancelling"
    /\ ev_reclaim' = [ev_reclaim EXCEPT ![c] = ReclaimOff]
    /\ UNCHANGED <<notEvVars, ev_stream, ev_group, ev_pel, ev_sent, ev_faults,
                   ev_fetch, ev_queue, ev_gen>>

\* cancel(): `await task` returns, the task it awaited has finished; on to
\* the next task or to the end of the generator.
GenAwaited(c) ==
    /\ ev_gen[c].pc = "finally"
    /\ LET task == CancelArgs[ev_exit[c].k]
       IN  TaskFinished(IF task = "fetch_task" THEN ev_fetch[c] ELSE ev_reclaim[c])
    /\ Cancel(c, ev_exit[c].how, ev_exit[c].k + 1)
    /\ UNCHANGED <<notExitVars, ev_stream, ev_group, ev_pel, ev_sent, ev_faults>>

\* A group of one consumer.
Solo == {"A"}

\* One consumer, with every way its session can fail.
NextEventSolo ==
    \/ \E a \in EvApis, e \in EventNames : SendEvent(a, e)
    \/ \E c \in Solo : StartConsume(c)
    \/ \E c \in Solo : FetchExists(c)
    \/ \E c \in Solo : FetchXaddNoop(c)
    \/ \E c \in Solo : FetchXgroupCreate(c)
    \/ \E c \in Solo : FetchReadPending(c)
    \/ \E c \in Solo : FetchReadNew(c)
    \/ \E c \in Solo : FetchPut(c)
    \/ \E c \in Solo : FetchJoin(c)
    \/ \E c \in Solo, applied \in BOOLEAN : FetchConnectionClosed(c, applied)
    \/ \E c \in Solo : FetchRestart(c)
    \/ \E c \in Solo : ReclaimWake(c)
    \/ \E c \in Solo : ReclaimXpending(c)
    \/ \E c \in Solo : ReclaimXclaim(c)
    \/ \E c \in Solo : ReclaimPut(c)
    \/ \E c \in Solo : ReclaimJoin(c)
    \/ \E c \in Solo : GenGet(c)
    \/ \E c \in Solo : GenAck(c)
    \/ \E c \in Solo, applied \in BOOLEAN : GenAckConnectionClosed(c, applied)
    \/ \E c \in Solo : GenClose(c)
    \/ \E c \in Solo : Crash(c)
    \/ EvTick

\* Two consumers in one group, on a stream that exists; their processes may
\* die and start again.
NextEventGroup ==
    \/ \E a \in EvApis : SendEvent(a, "opened")
    \/ \E c \in EvConsumers : StartConsume(c)
    \/ \E c \in EvConsumers : FetchExists(c)
    \/ \E c \in EvConsumers : FetchXgroupCreate(c)
    \/ \E c \in EvConsumers : FetchReadPending(c)
    \/ \E c \in EvConsumers : FetchReadNew(c)
    \/ \E c \in EvConsumers : FetchPut(c)
    \/ \E c \in EvConsumers : FetchJoin(c)
    \/ \E c \in EvConsumers : ReclaimWake(c)
    \/ \E c \in EvConsumers : ReclaimXpending(c)
    \/ \E c \in EvConsumers : ReclaimXclaim(c)
    \/ \E c \in EvConsumers : ReclaimPut(c)
    \/ \E c \in EvConsumers : ReclaimJoin(c)
    \/ \E c \in EvConsumers : GenGet(c)
    \/ \E c \in EvConsumers : GenAck(c)
    \/ \E c \in EvConsumers : Crash(c)
    \/ EvTick

\* The same group, in which the process of consumer A alone may die, while
\* consumer B keeps running.
\* Two consumers in one group whose fetch loops may lose the connection and
\* start again.
NextEventGroupLoss ==
    \/ \E a \in EvApis : SendEvent(a, "opened")
    \/ \E c \in EvConsumers : StartConsume(c)
    \/ \E c \in EvConsumers : FetchExists(c)
    \/ \E c \in EvConsumers : FetchXgroupCreate(c)
    \/ \E c \in EvConsumers : FetchReadPending(c)
    \/ \E c \in EvConsumers : FetchReadNew(c)
    \/ \E c \in EvConsumers : FetchPut(c)
    \/ \E c \in EvConsumers : FetchJoin(c)
    \/ \E c \in EvConsumers, applied \in BOOLEAN : FetchConnectionClosed(c, applied)
    \/ \E c \in EvConsumers : FetchRestart(c)
    \/ \E c \in EvConsumers : ReclaimWake(c)
    \/ \E c \in EvConsumers : ReclaimXpending(c)
    \/ \E c \in EvConsumers : ReclaimXclaim(c)
    \/ \E c \in EvConsumers : ReclaimPut(c)
    \/ \E c \in EvConsumers : ReclaimJoin(c)
    \/ \E c \in EvConsumers : GenGet(c)
    \/ \E c \in EvConsumers : GenAck(c)
    \/ EvTick

\* One consumer whose session meets no failure but connection losses of its
\* fetch loop.
NextEventLoss ==
    \/ \E a \in EvApis, e \in EventNames : SendEvent(a, e)
    \/ \E c \in Solo : StartConsume(c)
    \/ \E c \in Solo : FetchExists(c)
    \/ \E c \in Solo : FetchXaddNoop(c)
    \/ \E c \in Solo : FetchXgroupCreate(c)
    \/ \E c \in Solo : FetchReadPending(c)
    \/ \E c \in Solo : FetchReadNew(c)
    \/ \E c \in Solo : FetchPut(c)
    \/ \E c \in Solo : FetchJoin(c)
    \/ \E c \in Solo, applied \in BOOLEAN : FetchConnectionClosed(c, applied)
    \/ \E c \in Solo : FetchRestart(c)
    \/ \E c \in Solo : ReclaimWake(c)
    \/ \E c \in Solo : ReclaimXpending(c)
    \/ \E c \in Solo : ReclaimXclaim(c)
    \/ \E c \in Solo : ReclaimPut(c)
    \/ \E c \in Solo : ReclaimJoin(c)
    \/ \E c \in Solo : GenGet(c)
    \/ \E c \in Solo : GenAck(c)
    \/ EvTick

\* One consumer whose sessions end, the finally clause of the generator
\* running step by step.
NextEventExit ==
    \/ \E a \in EvApis : SendEvent(a, "opened")
    \/ \E c \in Solo : StartConsume(c)
    \/ \E c \in Solo : FetchExists(c)
    \/ \E c \in Solo : FetchXaddNoop(c)
    \/ \E c \in Solo : FetchXgroupCreate(c)
    \/ \E c \in Solo : FetchReadPending(c)
    \/ \E c \in Solo : FetchReadNew(c)
    \/ \E c \in Solo : FetchPut(c)
    \/ \E c \in Solo : FetchJoin(c)
    \/ \E c \in Solo : ReclaimWake(c)
    \/ \E c \in Solo : ReclaimXpending(c)
    \/ \E c \in Solo : ReclaimXclaim(c)
    \/ \E c \in Solo : ReclaimPut(c)
    \/ \E c \in Solo : ReclaimJoin(c)
    \/ \E c \in Solo : GenGet(c)
    \/ \E c \in Solo : GenAck(c)
    \/ \E c \in Solo : GenLeaveClosed(c)
    \/ \E c \in Solo, applied \in BOOLEAN : GenLeaveFailed(c, applied)
    \/ \E c \in Solo : GenLeaveCancelled(c)
    \/ \E c \in Solo : FetchCancelled(c)
    \/ \E c \in Solo : ReclaimCancelled(c)
    \/ \E c \in Solo : GenAwaited(c)
    \/ EvTick

NextEventFair ==
    \/ \E a \in EvApis : SendEvent(a, "opened")
    \/ \E c \in EvConsumers : StartConsume(c)
    \/ \E c \in EvConsumers : FetchExists(c)
    \/ \E c \in EvConsumers : FetchXgroupCreate(c)
    \/ \E c \in EvConsumers : FetchReadPending(c)
    \/ \E c \in EvConsumers : FetchReadNew(c)
    \/ \E c \in EvConsumers : FetchPut(c)
    \/ \E c \in EvConsumers : FetchJoin(c)
    \/ \E c \in EvConsumers : ReclaimWake(c)
    \/ \E c \in EvConsumers : ReclaimXpending(c)
    \/ \E c \in EvConsumers : ReclaimXclaim(c)
    \/ \E c \in EvConsumers : ReclaimPut(c)
    \/ \E c \in EvConsumers : ReclaimJoin(c)
    \/ \E c \in EvConsumers : GenGet(c)
    \/ \E c \in EvConsumers : GenAck(c)
    \/ Crash("A")
    \/ EvTick

(***************************************************************************)
(* RedisSchemaTransport: store and load, called one after the other by one *)
(* caller.                                                                 *)
(***************************************************************************)
SchemaApis == {"auth", "acct"}
Schemas == {"v1", "v2"}
\* ttl_seconds of a store call: None or a number of ticks.
NoTtl == -1
TtlSeconds == {NoTtl} \cup 1..MaxTtl

\* json_encode(schema) and json.loads(encoded).
json_encode(schema) == <<"json", schema>>
json_loads(encoded) == encoded[2]

\* A key of Redis that holds a string: the value and the TTL (-1: none).
NoSchemaKey == [exists |-> FALSE, value |-> <<>>, ttl |-> NoTtl]
\* SET key value: the key holds the value and has no TTL any more.
SetBad(key, value) == [key EXCEPT !.exists = TRUE, !.value = value]
Set(key, value) == [exists |-> TRUE, value |-> value, ttl |-> NoTtl]
\* MGET: the value of a key, None (the empty value) for a key that does not
\* exist.
Get(key) == IF key.exists THEN key.value ELSE <<>>

NoStore == [stored |-> FALSE, schema |-> "", ttl |-> NoTtl, age |-> 0]
NoCall == [api_name |-> "", schema |-> "", ttl_seconds |-> NoTtl]
\* The empty dict.
EmptyDict == [a \in {} |-> ""]

InitSchema ==
    /\ schema_key = [a \in SchemaApis |-> NoSchemaKey]
    /\ schemas_set = {}
    /\ sch_pc = "idle"
    /\ sch_call = NoCall
    /\ sch_names = {}
    /\ sch_loaded = EmptyDict
    /\ sch_ops = 0
    /\ sch_last = [a \in SchemaApis |-> NoStore]


\* store(api_name, schema, ttl_seconds) is called: the pipeline is sent.
Store(api_name, schema, ttl_seconds) ==
    /\ sch_pc = "idle"
    /\ sch_ops < MaxSchemaOps
    /\ sch_ops' = sch_ops + 1
    /\ sch_call' = [api_name |-> api_name, schema |-> schema,
                    ttl_seconds |-> ttl_seconds]
    /\ sch_pc' = "set"
    /\ UNCHANGED <<notSchVars, schema_key, schemas_set,
                   sch_names, sch_loaded, sch_last>>

\* p.set(schema_key, json_encode(schema))
StoreSet ==
    /\ sch_pc = "set"
    /\ schema_key' = [schema_key EXCEPT
                        ![sch_call.api_name] = Set(@, json_encode(sch_call.schema))]
    /\ sch_last' = [sch_last EXCEPT
                      ![sch_call.api_name] =
                          [stored |-> TRUE, schema |-> sch_call.schema,
                           ttl |-> sch_call.ttl_seconds, age |-> 0]]
    /\ sch_pc' = IF sch_call.ttl_seconds # NoTtl THEN "expire" ELSE "sadd"
    /\ UNCHANGED <<notSchVars, schemas_set, sch_call,
                   sch_names, sch_loaded, sch_ops>>

\* if ttl_seconds is not None: p.expire(schema_key, ttl_seconds)
StoreExpire ==
    /\ sch_pc = "expire"
    /\ schema_key' = [schema_key EXCEPT
                        ![sch_call.api_name] =
                            IF @.exists THEN [@ EXCEPT !.ttl = sch_call.ttl_seconds]
                            ELSE @]
    /\ sch_last' = [sch_last EXCEPT ![sch_call.api_name].age = 0]
    /\ sch_pc' = "sadd"
    /\ UNCHANGED <<notSchVars, schemas_set, sch_call,
                   sch_names, sch_loaded, sch_ops>>

\* SADD key member
SaddBad(set, member) == {member}
Sadd(set, member) == set \cup {member}

\* p.sadd("schemas", api_name); execute() returns.
StoreSadd ==
    /\ sch_pc = "sadd"
    /\ schemas_set' = Sadd(schemas_set, sch_call.api_name)
    /\ sch_pc' = "idle"
    /\ UNCHANGED <<notSchVars, schema_key, sch_call,
                   sch_names, sch_loaded, sch_ops, sch_last>>

\* load() is called, up to `await redis.smembers("schemas")`.
Load ==
    /\ sch_pc = "idle"
    /\ sch_ops < MaxSchemaOps
    /\ sch_ops' = sch_ops + 1
    /\ sch_pc' = "smembers"
    /\ UNCHANGED <<notSchVars, schema_key, schemas_set,
                   sch_call, sch_names, sch_loaded, sch_last>>

\* api_names = list(await redis.smembers(...)); `if not keys: return {}`
LoadSmembers ==
    /\ sch_pc = "smembers"
    /\ sch_names' = schemas_set
    /\ sch_pc' = IF schemas_set = {} THEN "idle" ELSE "mget"
    /\ sch_loaded' = IF schemas_set = {} THEN EmptyDict ELSE sch_loaded
    /\ UNCHANGED <<notSchVars, schema_key, schemas_set,
                   sch_call, sch_ops, sch_last>>

\* `if schema:` a value that MGET found.
IsValue(encoded) == encoded # <<>>

\* The dict load builds from the reply of MGET for api_names.
LoadedDict(api_names, keys) ==
    [a \in {b \in api_names : IsValue(Get(keys[b]))} |-> json_loads(Get(keys[a]))]

\* encoded_schemas = await redis.mget(*keys); the loop; return schemas.
LoadMget ==
    /\ sch_pc = "mget"
    /\ sch_loaded' = LoadedDict(sch_names, schema_key)
    /\ sch_pc' = "idle"
    /\ UNCHANGED <<notSchVars, schema_key, schemas_set,
                   sch_call, sch_names, sch_ops, sch_last>>

\* One tick of the clock: a schema key past its TTL disappears.
SchemaTick ==
    /\ \E a \in SchemaApis : schema_key[a].exists /\ schema_key[a].ttl # NoTtl
    /\ schema_key' = [a \in SchemaApis |->
                        IF schema_key[a].exists /\ schema_key[a].ttl # NoTtl
                        THEN IF schema_key[a].ttl = 0 THEN NoSchemaKey
                             ELSE [schema_key[a] EXCEPT !.ttl = @ - 1]
                        ELSE schema_key[a]]
    /\ sch_last' = [a \in SchemaApis |->
                      IF sch_last[a].stored /\ sch_last[a].age <= MaxTtl
                      THEN [sch_last[a] EXCEPT !.age = @ + 1]
                      ELSE sch_last[a]]
    /\ UNCHANGED <<notSchVars, schemas_set, sch_pc,
                   sch_call, sch_names, sch_loaded, sch_ops>>

NextSchema ==
    \/ \E a \in SchemaApis, s \in Schemas, t \in TtlSeconds : Store(a, s, t)
    \/ StoreSet
    \/ StoreExpire
    \/ StoreSadd
    \/ Load
    \/ LoadSmembers
    \/ LoadMget
    \/ SchemaTick

(***************************************************************************)
(* get_return_path and _parse_return_path, as send_result and              *)
(* receive_result use them on the return path of one message.              *)
(***************************************************************************)
\* The messages: api and procedure names (a name may hold "." or ":") and
\* ids.
ApiNames == {NameChars("auth"), NameChars("acct"), <<"a", ".", "b">>}
ProcedureNames == {NameChars("check"), NameChars("open"), <<"r", ":", "x">>}
MessageIds == {str(NatDigits(i)) : i \in 1..MaxMessageId}
RpcMessages ==
    [api_name : ApiNames, procedure_name : ProcedureNames, id : MessageIds]

InitReturnPath ==
    /\ rp_msg \in RpcMessages
    /\ rp_path = <<>>
    /\ rp_send_key = <<>>
    /\ rp_recv_key = <<>>

\* return_path = get_return_path(rpc_message), by the caller and by the
\* worker alike.
GetReturnPath ==
    /\ rp_path' = get_return_path(rp_msg)
    /\ UNCHANGED <<notRetVars, rp_msg, rp_send_key, rp_recv_key>>

\* send_result: redis_key = self._parse_return_path(return_path)
SendResultParse ==
    /\ rp_path # <<>>
    /\ rp_send_key' = parse_return_path(rp_path)
    /\ UNCHANGED <<notRetVars, rp_msg, rp_path, rp_recv_key>>

\* receive_result: redis_key = self._parse_return_path(return_path)
ReceiveResultParse ==
    /\ rp_path # <<>>
    /\ rp_recv_key' = parse_return_path(rp_path)
    /\ UNCHANGED <<notRetVars, rp_msg, rp_path, rp_send_key>>

NextReturnPath ==
    \/ GetReturnPath
    \/ SendResultParse
    \/ ReceiveResultParse

(***************************************************************************)
(* redis_stream_id_subtract_one                                            *)
(***************************************************************************)
\* The ids given: "<milliseconds>-<n>" for small numbers, for numbers of 13
\* digits and for 13 zeros.
MsInputs ==
    {str(NatDigits(ms)) : ms \in 0..MaxMs}
        \cup {str(<<0, 0, 0, 0, 0, 0, 0, 0, 0, 0, 0, 0, 0>>),
              str(<<1, 0, 0, 0, 0, 0, 0, 0, 0, 0, 0, 0, 0>>),
              str(<<1, 5, 2, 6, 9, 1, 9, 0, 3, 0, 4, 7, 4>>)}
SeqInputs == {str(NatDigits(n)) : n \in 0..MaxSeq} \cup {str(<<1, 0, 0, 0, 0>>)}
MessageIdInputs == {ms \o <<"-">> \o n : ms \in MsInputs, n \in SeqInputs}

\* message_id.split("-") of an id with one "-": the part before and the part
\* after it.
SplitDash(message_id) ==
    LET dash == Find(message_id, "-", 1)
    IN  <<SubSeq(message_id, 1, dash - 1),
          SubSeq(message_id, dash + 1, Len(message_id))>>

\* "{:13d}-{}".format(milliseconds, n)
MsWidth == 13
FormatId(milliseconds, n) == PadLeft(str(milliseconds), MsWidth) \o <<"-">> \o str(n)

\* n = 9999 after the borrow.
BorrowedSeq == <<9, 9, 9, 9>>

redis_stream_id_subtract_one(message_id) ==
    LET milliseconds == int(SplitDash(message_id)[1])
        n == int(SplitDash(message_id)[2])
    IN  IF Positive(n) THEN FormatId(milliseconds, MinusOne(n))
        ELSE IF Positive(milliseconds)
             THEN FormatId(MinusOne(milliseconds), BorrowedSeq)
             ELSE message_id

InitStreamId ==
    /\ sid_in \in MessageIdInputs
    /\ sid_out = <<>>

\* The function is called with the id.
SubtractOne ==
    /\ sid_out = <<>>
    /\ sid_out' = redis_stream_id_subtract_one(sid_in)
    /\ UNCHANGED <<notSidVars, sid_in>>

NextStreamId ==
    \/ SubtractOne

(***************************************************************************)
(* RedisEventTransport.consume: the set-up of a session that listens on    *)
(* several APIs, with one since value per listen_for pair.                 *)
(***************************************************************************)
\* The most pairs a listen_for holds.
MaxPairs == 3
\* The APIs and the pairs a session may listen for.
ListenApis == {"acct", "auth"}
ListenPairs == {<<a, e>> : a \in ListenApis, e \in EventNames \cup {"*"}}
\* listen_for: up to MaxPairs different pairs, in any order.
ListenFors ==
    {f \in UNION {[1..n -> ListenPairs] : n \in 1..MaxPairs} :
        \A i, j \in 1..Len(f) : f[i] = f[j] => i = j}
\* since values after normalise_since_value.
SinceValues == {"$", "0"}
NoEvent == <<"", "">>

\* zip(stream_names, since): pairs up to the end of the shorter sequence.
Min(a, b) == IF a <= b THEN a ELSE b
Zip(names, since) == [k \in 1..Min(Len(names), Len(since)) |-> <<names[k], since[k]>>]

InitListen ==
    /\ ls_since \in UNION {[1..n -> SinceValues] : n \in 1..MaxPairs}
    /\ ls_pc = "start"
    /\ ls_k = 1
    /\ ls_streams = <<>>
    /\ ls_created = {}
    /\ ls_yielded = NoEvent

\* consume() down to the start of its tasks: streams =
\* OrderedDict(zip(stream_names, since)).  The names are distinct, so the
\* dict keeps every pair of the zip, in order.
ListenConsume ==
    /\ ls_pc = "start"
    /\ ls_streams' = Zip(stream_names, ls_since)
    /\ ls_pc' = IF Zip(stream_names, ls_since) = <<>> THEN "read" ELSE "groups"
    /\ UNCHANGED <<notLsVars, ls_since, ls_k, ls_created, ls_yielded>>

\* _create_consumer_groups: for stream, since in streams.items():
\* redis.xgroup_create(stream, consumer_group, latest_id=since).
ListenXgroupCreate ==
    /\ ls_pc = "groups"
    /\ ls_created' = ls_created \cup {ls_streams[ls_k]}
    /\ IF ls_k < Len(ls_streams)
       THEN ls_k' = ls_k + 1 /\ ls_pc' = ls_pc
       ELSE ls_k' = 1 /\ ls_pc' = "read"
    /\ UNCHANGED <<notLsVars, ls_since, ls_streams, ls_yielded>>

\* An event fired by a producer lies on its stream; the session reads the
\* stream if it is one of `streams`, hands the entry to _fields_to_message
\* and yields what it returns unless that is None.
ListenRead(api_name, event_name) ==
    /\ ls_pc = "read"
    /\ \E k \in 1..Len(ls_streams) :
          ls_streams[k][1] = StreamName(api_name, event_name)
    /\ LET message == fields_to_message(Fields(api_name, event_name),
                                        expected_events, 1)
       IN  /\ message # None
           /\ ls_yielded' = <<message.api_name, message.event_name>>
    /\ UNCHANGED <<notLsVars, ls_since, ls_pc, ls_k, ls_streams, ls_created>>

NextListen ==
    \/ ListenConsume
    \/ ListenXgroupCreate
    \/ \E a \in ListenApis, e \in EventNames : ListenRead(a, e)


(***************************************************************************)
(* consume sessions and the connection pool: who holds a connection of the *)
(* pool, and who waits for one.  What the Redis commands reply is left     *)
(* open: a read may or may not bring a message.                            *)
(***************************************************************************)
\* The most sessions that share the transport, and the largest maxsize.
MaxSessions == 2
MaxPoolSize == 3
BrSessions == 1..MaxSessions

\* Positions inside `with await self.connection_manager() as redis:`.
FetchHolds == {"read", "put", "join"}
ReclaimHolds == {"scan", "put", "join"}
AckHolds == {"xack"}
\* The connections of the pool that are borrowed, and whether one is free:
\* `await self._local.redis_pool` returns a connection once the pool has a
\* free one or fewer than maxsize of them, and waits until then.
Borrowed ==
    Cardinality({s \in BrSessions : br_fetch[s] \in FetchHolds})
    + Cardinality({s \in BrSessions : br_reclaim[s] \in ReclaimHolds})
    + Cardinality({s \in BrSessions : br_gen[s] \in AckHolds})
PoolHasFree == Borrowed < br_maxsize

InitBorrow ==
    /\ br_maxsize \in 1..MaxPoolSize
    /\ br_fetch = [s \in BrSessions |-> "off"]
    /\ br_reclaim = [s \in BrSessions |-> "off"]
    /\ br_gen = [s \in BrSessions |-> "off"]
    /\ br_queue = [s \in BrSessions |-> QueueEmpty]

\* consume() up to the first await of its generator: the two tasks are
\* scheduled, the fetch task at connection_manager(), the reclaim task in
\* its sleep.
BorrowStartConsume(s) ==
    /\ br_gen[s] = "off"
    /\ br_fetch' = [br_fetch EXCEPT ![s] = "acquire"]
    /\ br_reclaim' = [br_reclaim EXCEPT ![s] = "sleep"]
    /\ br_gen' = [br_gen EXCEPT ![s] = "get"]
    /\ br_queue' = [br_queue EXCEPT ![s] = QueueEmpty]
    /\ UNCHANGED <<notBrVars, br_maxsize>>

\* _fetch_new_messages: connection_manager() returns a connection.
FetchAcquire(s) ==
    /\ br_fetch[s] = "acquire"
    /\ PoolHasFree
    /\ br_fetch' = [br_fetch EXCEPT ![s] = "read"]
    /\ UNCHANGED <<notBrVars, br_maxsize, br_reclaim, br_gen, br_queue>>

\* _fetch_new_messages yields a message inside its with block; consume_loop
\* goes to queue.put.
FetchYield(s) ==
    /\ br_fetch[s] = "read"
    /\ br_fetch' = [br_fetch EXCEPT ![s] = "put"]
    /\ UNCHANGED <<notBrVars, br_maxsize, br_reclaim, br_gen, br_queue>>

\* A command of the fetch task ends in ConnectionClosedError: the with block
\* is left, the connection goes back to the pool, consume_loop sleeps.
FetchLosesConnection(s) ==
    /\ br_fetch[s] = "read"
    /\ br_fetch' = [br_fetch EXCEPT ![s] = "sleep"]
    /\ UNCHANGED <<notBrVars, br_maxsize, br_reclaim, br_gen, br_queue>>

\* consume_loop: the sleep is over, _fetch_new_messages is called again.
FetchAgain(s) ==
    /\ br_fetch[s] = "sleep"
    /\ br_fetch' = [br_fetch EXCEPT ![s] = "acquire"]
    /\ UNCHANGED <<notBrVars, br_maxsize, br_reclaim, br_gen, br_queue>>

\* reclaim_loop: asyncio.sleep(acknowledgement_timeout) is over;
\* _reclaim_lost_messages is at connection_manager().
ReclaimAwake(s) ==
    /\ br_reclaim[s] = "sleep"
    /\ br_reclaim' = [br_reclaim EXCEPT ![s] = "acquire"]
    /\ UNCHANGED <<notBrVars, br_maxsize, br_fetch, br_gen, br_queue>>

\* _reclaim_lost_messages: connection_manager() returns a connection.
ReclaimAcquire(s) ==
    /\ br_reclaim[s] = "acquire"
    /\ PoolHasFree
    /\ br_reclaim' = [br_reclaim EXCEPT ![s] = "scan"]
    /\ UNCHANGED <<notBrVars, br_maxsize, br_fetch, br_gen, br_queue>>

\* _reclaim_lost_messages yields a claimed message inside its with block.
ReclaimYield(s) ==
    /\ br_reclaim[s] = "scan"
    /\ br_reclaim' = [br_reclaim EXCEPT ![s] = "put"]
    /\ UNCHANGED <<notBrVars, br_maxsize, br_fetch, br_gen, br_queue>>

\* _reclaim_lost_messages has gone through the streams: the with block
\* ends, and the task with it.
ReclaimEnd(s) ==
    /\ br_reclaim[s] = "scan"
    /\ br_reclaim' = [br_reclaim EXCEPT ![s] = "done"]
    /\ UNCHANGED <<notBrVars, br_maxsize, br_fetch, br_gen, br_queue>>

\* await queue.put((message, stream)) of either task, then on to
\* queue.join(): the task still holds its connection.
BorrowPut(s, task) ==
    /\ ~QueueFull(br_queue[s])
    /\ IF task = "fetch"
       THEN /\ br_fetch[s] = "put"
            /\ br_fetch' = [br_fetch EXCEPT ![s] = "join"]
            /\ UNCHANGED br_reclaim
       ELSE /\ br_reclaim[s] = "put"
            /\ br_reclaim' = [br_reclaim EXCEPT ![s] = "join"]
            /\ UNCHANGED br_fetch
    /\ br_queue' = [br_queue EXCEPT ![s] = QueuePut(@, task)]
    /\ UNCHANGED <<notBrVars, br_maxsize, br_gen>>

\* await queue.join() returns in either task; its generator goes on.
BorrowJoin(s, task) ==
    /\ QueueJoined(br_queue[s])
    /\ IF task = "fetch"
       THEN /\ br_fetch[s] = "join"
            /\ br_fetch' = [br_fetch EXCEPT ![s] = "read"]
            /\ UNCHANGED br_reclaim
       ELSE /\ br_reclaim[s] = "join"
            /\ br_reclaim' = [br_reclaim EXCEPT ![s] = "scan"]
            /\ UNCHANGED br_fetch
    /\ UNCHANGED <<notBrVars, br_maxsize, br_gen, br_queue>>

\* message, stream = await queue.get(); yield message
BorrowGet(s) ==
    /\ br_gen[s] = "get"
    /\ br_queue[s].items # <<>>
    /\ br_queue' = [br_queue EXCEPT ![s].items = Tail(@)]
    /\ br_gen' = [br_gen EXCEPT ![s] = "yielded"]
    /\ UNCHANGED <<notBrVars, br_maxsize, br_fetch, br_reclaim>>

\* The caller resumes the generator: _ack is at connection_manager().
AckStart(s) ==
    /\ br_gen[s] = "yielded"
    /\ br_gen' = [br_gen EXCEPT ![s] = "acquire"]
    /\ UNCHANGED <<notBrVars, br_maxsize, br_fetch, br_reclaim, br_queue>>

\* _ack: connection_manager() returns a connection.
AckAcquire(s) ==
    /\ br_gen[s] = "acquire"
    /\ PoolHasFree
    /\ br_gen' = [br_gen EXCEPT ![s] = "xack"]
    /\ UNCHANGED <<notBrVars, br_maxsize, br_fetch, br_reclaim, br_queue>>

\* _ack: XACK is answered, the with block ends; queue.task_done(); the
\* generator is back in queue.get().
AckEnd(s) ==
    /\ br_gen[s] = "xack"
    /\ br_gen' = [br_gen EXCEPT ![s] = "get"]
    /\ br_queue' = [br_queue EXCEPT ![s] = QueueTaskDone(@)]
    /\ UNCHANGED <<notBrVars, br_maxsize, br_fetch, br_reclaim>>

\* The caller closes the generator at its yield: the finally clause cancels
\* both tasks, which leave their with blocks.
BorrowClose(s) ==
    /\ br_gen[s] = "yielded"
    /\ br_fetch' = [br_fetch EXCEPT ![s] = "off"]
    /\ br_reclaim' = [br_reclaim EXCEPT ![s] = "off"]
    /\ br_gen' = [br_gen EXCEPT ![s] = "off"]
    /\ br_queue' = [br_queue EXCEPT ![s] = QueueEmpty]
    /\ UNCHANGED <<notBrVars, br_maxsize>>

NextBorrow ==
    \/ \E s \in BrSessions : BorrowStartConsume(s)
    \/ \E s \in BrSessions : FetchAcquire(s)
    \/ \E s \in BrSessions : FetchYield(s)
    \/ \E s \in BrSessions : FetchLosesConnection(s)
    \/ \E s \in BrSessions : FetchAgain(s)
    \/ \E s \in BrSessions : ReclaimAwake(s)
    \/ \E s \in BrSessions : ReclaimAcquire(s)
    \/ \E s \in BrSessions : ReclaimYield(s)
    \/ \E s \in BrSessions : ReclaimEnd(s)
    \/ \E s \in BrSessions, task \in {"fetch", "reclaim"} : BorrowPut(s, task)
    \/ \E s \in BrSessions, task \in {"fetch", "reclaim"} : BorrowJoin(s, task)
    \/ \E s \in BrSessions : BorrowGet(s)
    \/ \E s \in BrSessions : AckStart(s)
    \/ \E s \in BrSessions : AckAcquire(s)
    \/ \E s \in BrSessions : AckEnd(s)
    \/ \E s \in BrSessions : BorrowClose(s)

\* The parts added after the first ones, before any of their calls; the
\* message and the id given are the first of their sets.
InitRest ==
    /\ InitSchema /\ InitExit
    /\ InitListen /\ ls_since = <<"$">>
    /\ InitBorrow /\ br_maxsize = 1
    /\ InitReturnPath /\ rp_msg.api_name = NameChars("auth")
        /\ rp_msg.procedure_name = NameChars("check") /\ rp_msg.id = str(NatDigits(1))
    /\ InitStreamId /\ sid_in = str(NatDigits(0)) \o <<"-">> \o str(NatDigits(0))

vars == <<rpcVars, cmVars, evVars, recvVars, restVars>>

\* The RPC transport alone.
InitRpcOnly == InitRpc /\ InitPool /\ ~cm_injected /\ InitEvent /\ InitReceive /\ InitRest
SpecRpc == InitRpcOnly /\ [][NextRpc]_vars
\* The RPC transport with the workers sending their results.
\* The RPC transport whose consumers may be cancelled in consume_rpcs.
NextRpcCancel ==
    \/ \E c \in RpcConsumers, raised \in Cancellations : CancelBlpop(c, raised)
    \/ \E c \in RpcConsumers, raised \in Cancellations, applied \in BOOLEAN :
          CancelDelete(c, raised, applied)
    \/ \E c \in RpcConsumers : CancelSleep(c)
SpecRpcCancel == InitRpcOnly /\ [][NextRpc \/ NextRpcCancel]_vars

\* The RPC transport with every call made on one API and a single consumer.
NextRpcFifo ==
    \/ \E i \in CallIds : CallRpcRpush(i, "auth")
    \/ \E i \in CallIds : CallRpcSet(i)
    \/ \E i \in CallIds : CallRpcExpire(i)
    \/ ConsumeRpcs("w1")
    \/ Blpop("w1")
    \/ Delete("w1")
    \/ BlpopConnectionClosed("w1")
    \/ \E applied \in BOOLEAN : DeleteConnectionClosed("w1", applied)
    \/ ConsumeRestart("w1")
    \/ RpcTick
SpecRpcFifo == InitRpcOnly /\ [][NextRpcFifo]_vars
SpecRpcResult ==
    InitRpcOnly /\ [][NextRpc \/ NextResult]_vars
\* The result transport: callers in receive_result, workers in send_result.
\* Time passes, Redis answers a BLPOP that can be answered, and a caller that
\* got a reply goes on; nothing makes a worker send a result.
FairReceive ==
    /\ WF_vars(RecvTick)
    /\ \A r \in Receivers :
          WF_vars(ReceiveBlpop(r)) /\ WF_vars(ReceiveBlpopTimeout(r))
SpecReceive == InitRpcOnly /\ [][NextReceive]_vars /\ FairReceive
\* The connection manager.
InitPoolOnly == InitPool /\ InitRpc /\ InitEvent /\ InitReceive /\ InitRest
SpecPool == InitPoolOnly /\ [][NextPool]_vars
\* The connection manager of a sequence of transports.
SpecPoolSeq == InitPoolOnly /\ [][NextPoolSeq]_vars

\* The schema transport.
InitSchemaOnly ==
    InitRpc /\ InitPool /\ ~cm_injected /\ InitEvent /\ InitReceive /\ InitRest
SpecSchema == InitSchemaOnly /\ [][NextSchema]_vars

\* get_return_path and _parse_return_path on every message.
InitReturnPathOnly ==
    /\ InitReturnPath
    /\ InitRpc /\ InitPool /\ ~cm_injected /\ InitEvent /\ InitReceive
    /\ InitSchema /\ InitExit /\ InitListen /\ ls_since = <<"$">>
    /\ InitBorrow /\ br_maxsize = 1
    /\ InitStreamId /\ sid_in = str(NatDigits(0)) \o <<"-">> \o str(NatDigits(0))
SpecReturnPath == InitReturnPathOnly /\ [][NextReturnPath]_vars

\* redis_stream_id_subtract_one on every id.
InitStreamIdOnly ==
    /\ InitStreamId
    /\ InitRpc /\ InitPool /\ ~cm_injected /\ InitEvent /\ InitReceive
    /\ InitSchema /\ InitExit /\ InitListen /\ ls_since = <<"$">>
    /\ InitBorrow /\ br_maxsize = 1
    /\ InitReturnPath /\ rp_msg.api_name = NameChars("auth")
        /\ rp_msg.procedure_name = NameChars("check") /\ rp_msg.id = str(NatDigits(1))
SpecStreamId == InitStreamIdOnly /\ [][NextStreamId]_vars

\* Every task and every Redis command goes on; a task that waits for a
\* connection gets one if the pool has a free one again and again; the
\* caller may leave a yielded message unprocessed for ever, and need not
\* start or close a session.
FairBorrow ==
    /\ \A s \in BrSessions : SF_vars(FetchAcquire(s))
    /\ \A s \in BrSessions : WF_vars(FetchYield(s))
    /\ \A s \in BrSessions : WF_vars(FetchAgain(s))
    /\ \A s \in BrSessions : WF_vars(ReclaimAwake(s))
    /\ \A s \in BrSessions : SF_vars(ReclaimAcquire(s))
    /\ \A s \in BrSessions : WF_vars(ReclaimYield(s) \/ ReclaimEnd(s))
    /\ \A s \in BrSessions, task \in {"fetch", "reclaim"} : WF_vars(BorrowPut(s, task))
    /\ \A s \in BrSessions, task \in {"fetch", "reclaim"} : WF_vars(BorrowJoin(s, task))
    /\ \A s \in BrSessions : WF_vars(BorrowGet(s))
    /\ \A s \in BrSessions : SF_vars(AckAcquire(s))
    /\ \A s \in BrSessions : WF_vars(AckEnd(s))

\* consume sessions that share the pool of one transport, for every maxsize
\* up to MaxPoolSize.
InitBorrowOnly ==
    /\ InitBorrow
    /\ InitRpc /\ InitPool /\ ~cm_injected /\ InitEvent /\ InitReceive
    /\ InitSchema /\ InitExit /\ InitListen /\ ls_since = <<"$">>
    /\ InitReturnPath /\ rp_msg.api_name = NameChars("auth")
        /\ rp_msg.procedure_name = NameChars("check") /\ rp_msg.id = str(NatDigits(1))
    /\ InitStreamId /\ sid_in = str(NatDigits(0)) \o <<"-">> \o str(NatDigits(0))
SpecBorrow == InitBorrowOnly /\ [][NextBorrow]_vars /\ FairBorrow

\* The set-up of a consume() session, for every listen_for of up to MaxPairs
\* pairs on two APIs, either stream_use and one since value per pair.
InitListenOnly ==
    /\ InitListen
    /\ ev_conf \in [stream_use : {"per_api", "per_event"}, since : {"$"},
                     forever : {TRUE}, listen_for : ListenFors]
    /\ Len(ls_since) = Len(ListenFor)
    /\ ev_stream = [s \in Streams |-> <<>>]
    /\ ev_group = [s \in Streams |-> [exists |-> FALSE, start |-> 0, last |-> 0]]
    /\ ev_pel = [s \in Streams |-> {}]
    /\ ev_sent = 0
    /\ ev_faults = 0
    /\ ev_fetch = [c \in EvConsumers |-> FetchOff]
    /\ ev_reclaim = [c \in EvConsumers |-> ReclaimOff]
    /\ ev_queue = [c \in EvConsumers |-> QueueEmpty]
    /\ ev_gen = [c \in EvConsumers |-> GenOff]
    /\ InitRpc /\ InitPool /\ ~cm_injected /\ InitReceive
    /\ InitSchema /\ InitExit
    /\ InitBorrow /\ br_maxsize = 1
    /\ InitReturnPath /\ rp_msg.api_name = NameChars("auth")
        /\ rp_msg.procedure_name = NameChars("check") /\ rp_msg.id = str(NatDigits(1))
    /\ InitStreamId /\ sid_in = str(NatDigits(0)) \o <<"-">> \o str(NatDigits(0))
SpecListen == InitListenOnly /\ [][NextListen]_vars

\* The event transport with a single consumer that listens for every event
\* of the API.
InitStar ==
    /\ ev_conf = [DefaultConf EXCEPT !.listen_for = ListenStar]
    /\ ev_stream = [s \in Streams |-> <<>>]
    /\ ev_group = [s \in Streams |-> [exists |-> FALSE, start |-> 0, last |-> 0]]
    /\ ev_pel = [s \in Streams |-> {}]
    /\ ev_sent = 0
    /\ ev_faults = 0
    /\ ev_fetch = [c \in EvConsumers |-> FetchOff]
    /\ ev_reclaim = [c \in EvConsumers |-> ReclaimOff]
    /\ ev_queue = [c \in EvConsumers |-> QueueEmpty]
    /\ ev_gen = [c \in EvConsumers |-> GenOff]
    /\ InitRpc /\ InitPool /\ ~cm_injected /\ InitReceive /\ InitRest
SpecEventStar == InitStar /\ [][NextEventSolo]_vars

\* The event transport with a single consumer.
InitSolo == InitEvent /\ InitRpc /\ InitPool /\ ~cm_injected /\ InitReceive /\ InitRest
SpecEventSolo == InitSolo /\ [][NextEventSolo]_vars
\* The same consumer when nothing ends its session: the fetch loop alone
\* loses its connection.
SpecEventLoss == InitSolo /\ [][NextEventLoss]_vars
\* The same consumer when its sessions end and start again: a cancelled
\* task runs, and the generator goes on when the task it awaits has
\* finished.
FairExit ==
    \A c \in Solo : /\ WF_vars(FetchCancelled(c)) /\ WF_vars(ReclaimCancelled(c))
                    /\ WF_vars(GenAwaited(c))
SpecEventExit == InitSolo /\ [][NextEventExit]_vars /\ FairExit
\* The event transport with a single consumer, under either stream_use and
\* either since.
InitConf == InitEventAny /\ forever /\ InitRpc /\ InitPool /\ ~cm_injected /\ InitReceive /\ InitRest
SpecEventConf == InitConf /\ [][NextEventSolo]_vars
\* The event transport with a single consumer whose consume() calls have
\* forever=False.
InitOnce ==
    /\ InitEventAny /\ ev_conf = [DefaultConf EXCEPT !.forever = FALSE]
    /\ InitRpc /\ InitPool /\ ~cm_injected /\ InitReceive /\ InitRest
SpecEventOnce == InitOnce /\ [][NextEventSolo]_vars
\* The event transport with a group of two consumers.
InitGroup == InitEventSent /\ InitRpc /\ InitPool /\ ~cm_injected /\ InitReceive /\ InitRest
SpecEventGroup == InitGroup /\ [][NextEventGroup]_vars
\* A group of two consumers that listens from the start of the stream
\* (since = "0"), with connection losses in the fetch loops: the event fired
\* before the first consumer starts is delivered to the group.
InitGroupLoss ==
    /\ ev_conf = [DefaultConf EXCEPT !.since = "0"]
    /\ ev_stream = [s \in Streams |->
                      IF s = <<"acct", "*">> THEN <<Fields("acct", "opened")>>
                      ELSE <<>>]
    /\ ev_group = [s \in Streams |-> [exists |-> FALSE, start |-> 0, last |-> 0]]
    /\ ev_pel = [s \in Streams |-> {}]
    /\ ev_sent = 1
    /\ ev_faults = 0
    /\ ev_fetch = [c \in EvConsumers |-> FetchOff]
    /\ ev_reclaim = [c \in EvConsumers |-> ReclaimOff]
    /\ ev_queue = [c \in EvConsumers |-> QueueEmpty]
    /\ ev_gen = [c \in EvConsumers |-> GenOff]
    /\ InitRpc /\ InitPool /\ ~cm_injected /\ InitReceive /\ InitRest
SpecEventGroupLoss == InitGroupLoss /\ [][NextEventGroupLoss]_vars

\* Every consumer starts its first session, every task and generator that
\* can take its next step takes it in the end (the event loop runs every
\* task that is ready), every caller resumes the generator in the end, and
\* time passes.  Nothing makes a producer fire, a process die or a dead
\* process start again.
FairEvent ==
    /\ WF_vars(EvTick)
    /\ \A c \in EvConsumers :
          /\ WF_vars(ev_gen[c].pc = "off" /\ StartConsume(c))
          /\ WF_vars(FetchExists(c))
          /\ WF_vars(FetchXgroupCreate(c))
          /\ WF_vars(FetchReadPending(c))
          /\ WF_vars(FetchReadNew(c))
          /\ WF_vars(FetchPut(c))
          /\ WF_vars(FetchJoin(c))
          /\ WF_vars(ReclaimWake(c))
          /\ WF_vars(ReclaimXpending(c))
          /\ WF_vars(ReclaimXclaim(c))
          /\ WF_vars(ReclaimPut(c))
          /\ WF_vars(ReclaimJoin(c))
          /\ WF_vars(GenGet(c))
          /\ WF_vars(GenAck(c))
\* The group of two consumers under that scheduling.
SpecEventFair == InitGroup /\ [][NextEventFair]_vars /\ FairEvent

(***************************************************************************)
(* Claims about the RPC transport.                                         *)
(***************************************************************************)
\* Consumer c's consume_rpcs has returned the batch of its last pop.
Returned(c) == consume_pc[c] = "idle" /\ obs[c].key_deleted # -1

\* C1: RPC delivery is at-most-once: BLPOP hands every enqueued call to at
\* most one consumer, once, and consume_rpcs returns every call in a
\* non-empty batch at most once in total, whatever the interleaving of
\* producers, consumers and connection losses.
C1_AtMostOnce ==
    \A i \in CallIds : popped[i] <= 1 /\ delivered[i] <= 1

\* C1 witness: two consumers were both consuming, one call was delivered and
\* a connection loss had made the loop of consume_rpcs re-enter.
C1_Witness ==
    /\ \E i \in CallIds : delivered[i] = 1
    /\ rpc_losses > 0
    /\ \E c \in RpcConsumers : consume_pc[c] = "blpop"
    /\ \E c \in RpcConsumers : Returned(c) /\ consume_ret[c] # <<>>

\* C3: the expiry key of a call exists for at most rpc_timeout after
\* call_rpc has returned (its pipeline has run), and a consume_rpcs that pops
\* the call later than that gets 0 from DEL and returns the empty batch.
C3_ExpiredNeverDelivered ==
    /\ \A i \in CallIds : age[i] > rpc_timeout => ~expiry_key[i].exists
    /\ \A c \in RpcConsumers :
        Returned(c) /\ obs[c].lateAtPop =>
            obs[c].key_deleted = 0 /\ consume_ret[c] = <<>>

\* C3 witness: a call was popped more than rpc_timeout after its enqueue and
\* consume_rpcs has returned the empty batch.
C3_Witness ==
    \E c \in RpcConsumers :
        Returned(c) /\ obs[c].lateAtPop /\ consume_ret[c] = <<>>

\* C4 (as amended): a popped call is returned by consume_rpcs if and only if
\* its expiry key exists when the DEL that follows the pop runs (DEL replies
\* 1); the batch is that one call or empty.
C4_ValidIffKeyAtDel ==
    \A c \in RpcConsumers :
        Returned(c) =>
            /\ consume_ret[c] \in {<<>>, <<obs[c].id>>}
            /\ (consume_ret[c] # <<>>) <=> (obs[c].key_deleted = 1)

\* C4 witness: a call whose key existed at the pop was discarded, because
\* the key expired between BLPOP and DEL.
C4_Witness ==
    \E c \in RpcConsumers :
        Returned(c) /\ obs[c].keyAtPop /\ obs[c].key_deleted = 0
            /\ consume_ret[c] = <<>>

\* C4 as stated: a popped call is returned if and only if its expiry key
\* exists at the moment of the pop.  Stated here for the calls whose call_rpc
\* had returned before the pop, so that no half-run pipeline is involved.
C4_ValidIffKeyAtPop ==
    \A c \in RpcConsumers :
        Returned(c) /\ obs[c].stageAtPop = "done" =>
            ((consume_ret[c] # <<>>) <=> obs[c].keyAtPop)

\* C5: the pipelines commit all-or-nothing as seen by other clients: no
\* consumer pops a queue entry whose expiry key has not been written yet, no
\* expiry key exists without its TTL, no result list exists without its TTL.
C5_PipelinesAtomic ==
    /\ \A c \in RpcConsumers : obs[c].id # 0 => obs[c].stageAtPop # "set"
    /\ \A i \in CallIds : expiry_key[i].exists => expiry_key[i].ttl >= 0
    /\ \A i \in CallIds :
        result_key[i].items # <<>> => result_key[i].ttl = "result_ttl"

(***************************************************************************)
(* Claims about the result transport.                                      *)
(***************************************************************************)
\* C12 (as amended): receive_result stops waiting only with a result or
\* when its caller cancels it: a BLPOP that replies None after rpc_timeout
\* is followed by the next BLPOP.
C12_WaitsForResult ==
    [][\A r \in Receivers :
          /\ (recv_pc[r] = "blpop" /\ recv_pc'[r] # "blpop") =>
                 \/ recv_pc'[r] = "cancelled"
                 \/ recv_pc'[r] = "done" /\ recv_result'[r] # 0
          /\ (~recv_empty[r] /\ recv_empty'[r]) =>
                 recv_pc'[r] = "blpop" /\ recv_wait'[r] = 0]_vars

\* C12 witness: a caller whose BLPOP has replied None is waiting in its next
\* BLPOP, rpc_timeout after that one was issued, and no result was sent.
C12_Witness ==
    \E r \in Receivers :
        /\ recv_pc[r] = "blpop" /\ recv_empty[r] /\ recv_wait[r] = rpc_timeout
        /\ send_pc[RecvCall(r)] = "none"

\* C12 as stated: a caller waiting in receive_result stops waiting in the
\* end, whether a result is sent or not.
C12_ReceiveTimesOut ==
    \A r \in Receivers :
        (recv_pc[r] = "blpop") ~> (recv_pc[r] \in {"done", "cancelled"})

\* C13: a caller of receive_result gets the result of its own call only,
\* and the result of a call is received by one caller at most, however the
\* calls, the results and the callers interleave.
C13_ResultToItsCaller ==
    /\ \A r \in Receivers : recv_pc[r] = "done" => recv_result[r] = RecvCall(r)
    /\ \A i \in CallIds :
          Cardinality({r \in Receivers : recv_result[r] = i}) <= 1

\* C13 witness: the results of two calls were received, each by a caller of
\* its return path, while a second caller of the first path, whose BLPOP has
\* timed out, still waits.
C13_Witness ==
    /\ \E r \in Receivers : recv_pc[r] = "done" /\ recv_result[r] = 1
    /\ \E r \in Receivers : recv_pc[r] = "done" /\ recv_result[r] = 2
    /\ \E r \in Receivers : recv_pc[r] = "blpop" /\ recv_empty[r]

(***************************************************************************)
(* Claims about the event transport.                                       *)
(***************************************************************************)
\* The ids an entry of a stream may have.
EntryIds == 1..(MaxEvents + 1)
\* The streams that exist under stream_use = "per_api", the configuration of
\* the groups below: one per API.
ApiStreams == {<<a, "*">> : a \in EvApis}
\* The ids of the entries written to such a stream after the one that is
\* there before the first consumer starts.
LaterIds == 2..MaxEvents
\* Entry id of stream s is pending in the group.
Pending(s, id) == id \in PelIds(ev_pel[s])
\* Entry id of stream s is an event the group listens for.
Wanted(s, id) ==
    /\ id <= Len(ev_stream[s])
    /\ fields_to_message(ev_stream[s][id], expected_events, id) # None
\* Entry id of stream s was written after the group's start position.
AfterStart(s, id) == ev_group[s].exists /\ id > ev_group[s].start
\* Entry id of stream s is in the hands of the caller of some member.
Held(s, id) ==
    \E c \in EvConsumers :
        ev_gen[c].pc = "yielded" /\ ev_gen[c].cur = Item(s, id)
\* Entry id of stream s was delivered and is acknowledged.
Acked(s, id) == id <= ev_group[s].last /\ ~Pending(s, id)

\* C2: event delivery is at-least-once within a consumer group: every event
\* written after the group's start position and not yet acknowledged is
\* yielded to some member in the end (again, if it had been yielded before)
\* or acknowledged, as long as one member keeps running and callers keep
\* resuming.
C2_AtLeastOnce ==
    \A s \in ApiStreams, id \in LaterIds :
        (Wanted(s, id) /\ AfterStart(s, id) /\ ~Acked(s, id))
            ~> (Held(s, id) \/ Acked(s, id))

\* Entry id of stream s is pending for a consumer whose process has died.
Orphaned(s, id) ==
    \E p \in ev_pel[s] : p.id = id /\ ev_gen[p.consumer].pc = "dead"

\* C14: an entry that a consumer has read and left unacknowledged when its
\* process died is claimed and yielded by another member of the group in
\* the end (or by the consumer itself, should it start again), whenever the
\* death happens.
C14_OrphanReclaimed ==
    \A s \in ApiStreams, id \in LaterIds :
        (Orphaned(s, id) /\ Wanted(s, id)) ~> (Held(s, id) \/ ~Pending(s, id))

\* No entry is pending for two consumers at once.
OneOwner(pel) ==
    \A s \in Streams : \A p, q \in pel[s] : p.id = q.id => p = q
\* The reclaim task of consumer c gets an entry from XCLAIM in this step and
\* goes on to yield it.
ReclaimYields(c) ==
    ev_reclaim[c].pc = "xclaim" /\ ev_reclaim'[c].pc \in {"put", "join"}

C7_AckOncePerResume ==
    [][/\ \A c \in EvConsumers :
             LET cur == ev_gen[c].cur
             IN  /\ (ev_gen[c].pc = "yielded" /\ ev_gen'[c].pc = "get") =>
                        /\ ev_pel' = [ev_pel EXCEPT ![cur.stream] =
                                         {p \in @ : p.id # cur.id}]
                        /\ ev_queue'[c].unfinished = ev_queue[c].unfinished - 1
                 /\ (ev_gen[c].pc = "yielded"
                        /\ ev_gen'[c].pc \in {"closed", "dead"}) =>
                        ev_pel' = ev_pel
       /\ \A s \in Streams : \A id \in PelIds(ev_pel[s]) \ PelIds(ev_pel'[s]) :
             \E c \in EvConsumers :
                /\ ev_gen[c].pc = "yielded" /\ ev_gen[c].cur = Item(s, id)
                /\ ev_gen'[c].pc \in {"get", "failed"}]_vars

\* C7 witness: with no failure so far, an event was delivered, its caller
\* has resumed and the entry is acknowledged.
C7_Witness ==
    \E c \in EvConsumers, s \in Streams, id \in EntryIds :
        /\ ev_gen[c].pc = "get" /\ ev_faults = 0
        /\ Wanted(s, id) /\ Acked(s, id) /\ AfterStart(s, id)

\* Entry id of stream s is an event (not a noop) that the group does not
\* listen for.
Filtered(s, id) ==
    /\ id <= Len(ev_stream[s])
    /\ ev_stream[s][id] # Noop
    /\ fields_to_message(ev_stream[s][id], expected_events, id) = None
\* The fetch task of consumer c has entry id of stream s still before it, in
\* the rest of the reply it iterates over.
InBatch(c, s, id) ==
    \E n \in 1..Len(ev_fetch[c].batch) : ev_fetch[c].batch[n] = Item(s, id)

\* C15: under per-API streams an entry whose event name is not listened for
\* is not pending for a consumer once the consumer's fetch loop has passed
\* over it.
C15_FilteredAcked ==
    \A c \in EvConsumers, s \in Streams, id \in EntryIds :
        (Running(c) /\ Filtered(s, id) /\ id \in OwnIds(ev_pel[s], c))
            => InBatch(c, s, id)

\* What a task holds, the queue carries or the generator has yielded is the
\* noop entry of a stream.
IsNoop(item) == item # NoItem /\ ev_stream[item.stream][item.id] = Noop

\* C16: the noop entry that seeds a stream is never yielded by consume:
\* neither task hands it to the queue and the generator never yields it,
\* whether it came with the pending backlog, with new entries or from a
\* claim, under either stream_use and either since.
C16_NoopNeverYielded ==
    \A c \in EvConsumers :
        /\ ~IsNoop(ev_fetch[c].item)
        /\ ~IsNoop(ev_reclaim[c].item)
        /\ \A n \in 1..Len(ev_queue[c].items) : ~IsNoop(ev_queue[c].items[n])
        /\ ~IsNoop(ev_gen[c].cur)

\* C16 witness: under per-event streams and since 0 the consumer has seeded
\* the stream, the seed was delivered to it by Redis, its reclaim pass is
\* over, and the event produced after the seed is in its caller's hands.
C16_Witness ==
    \E s \in Streams :
        /\ stream_use = "per_event" /\ Since = "0"
        /\ Len(ev_stream[s]) >= 2 /\ ev_stream[s][1] = Noop
        /\ 1 \in OwnIds(ev_pel[s], "A")
        /\ ev_reclaim["A"].pc = "done"
        /\ Held(s, 2)

\* C17: with forever=False the fetch task, once it has read new entries,
\* does not enter _fetch_new_messages again: it never goes from the read of
\* new entries, or from the put or the join of one of them, back to the
\* creation of the consumer groups.
C17_OneDrain ==
    [][\A c \in EvConsumers :
          (~forever /\ ev_fetch[c].pc \in {"new", "put", "join"})
              => ev_fetch'[c].pc # "exists"]_vars

\* C18: within a session the messages of one stream that the fetch task
\* yields (the pending backlog, then new entries) come in increasing id
\* order, also across a restart of the fetch loop after a connection loss.
C18_FetchInOrder ==
    [][\A c \in EvConsumers :
          LET old == ev_fetch[c].last
              new == ev_fetch'[c].last
          IN  (old # NoItem /\ new # NoItem /\ new # old /\ new.stream = old.stream)
                  => new.id > old.id]_vars

\* C19: the reclaim task never claims, and never yields, an entry that is
\* pending for its own consumer name at the time of the XCLAIM: what it
\* claims and yields belonged to another consumer.
C19_ReclaimsOthersOnly ==
    [][\A c \in EvConsumers :
          ev_reclaim[c].pc = "xclaim" =>
              LET stream == stream_names[ev_reclaim[c].k]
                  own == {p \in ev_pel[stream] :
                            p.id = Head(ev_reclaim[c].old) /\ p.consumer = c}
              IN  /\ own \subseteq ev_pel'[stream]
                  /\ own # {} => ~ReclaimYields(c)]_vars

\* C20: a call popped while its expiry key is absent is dropped without side
\* effects: the pop removes that one entry from its queue and nothing else,
\* and the DEL and return that follow hand no message to the worker and
\* leave every queue, every expiry key and every result list as they were.
C20_AbsentDroppedNoEffect ==
    [][\A c \in RpcConsumers :
          /\ (consume_pc[c] = "blpop" /\ consume_pc'[c] = "del") =>
                /\ \E api \in Apis :
                      /\ rpc_queue[api] # <<>>
                      /\ rpc_queue' = [rpc_queue EXCEPT ![api] = Tail(@)]
                /\ expiry_key' = expiry_key
                /\ result_key' = result_key
          /\ (consume_pc[c] = "del" /\ consume_pc'[c] = "idle"
                    /\ ~obs[c].keyAtPop) =>
                /\ consume_ret'[c] = <<>>
                /\ delivered' = delivered
                /\ send_pc' = send_pc
                /\ rpc_queue' = rpc_queue
                /\ expiry_key' = expiry_key
                /\ result_key' = result_key]_vars

\* The number of tasks of consumer c that wait in queue.join().
Joining(c) ==
    (IF ev_fetch[c].pc = "join" THEN 1 ELSE 0)
        + (IF ev_reclaim[c].pc = "join" THEN 1 ELSE 0)
\* The messages of consumer c put on the queue and not yet acknowledged.
Outstanding(c) ==
    Len(ev_queue[c].items) + (IF ev_gen[c].pc = "yielded" THEN 1 ELSE 0)

\* C8 (as amended): in a running session at most one message is in the
\* caller's hands, at most one waits on the queue, and each of the two tasks
\* has put at most one message that is not yet acknowledged: a task that has
\* put a message waits in queue.join() until every message put is
\* acknowledged.
C8_OnePutPerTask ==
    \A c \in EvConsumers :
        Running(c) =>
            /\ ev_queue[c].unfinished = Outstanding(c)
            /\ Outstanding(c) <= Joining(c)
            /\ Len(ev_queue[c].items) <= QueueMaxsize

\* C8 witness: a message of the fetch task and one of the reclaim task are
\* both unacknowledged in one session.
C8_Witness == \E c \in EvConsumers : Running(c) /\ Outstanding(c) = 2

\* C8 as stated: never more than one entry delivered to a consumer by Redis
\* and not yet acknowledged.
C8_OnePendingPerSession ==
    \A c \in EvConsumers :
        Running(c) =>
            \A s \in Streams : Cardinality(OwnIds(ev_pel[s], c)) <= 1

(***************************************************************************)
(* Claims about the connection manager.                                    *)
(***************************************************************************)
\* The number of pools that hold connections to the Redis server.
ConnectedPools == Cardinality({p \in PoolIds : cm_pools[p] \in {"open", "closing"}})

\* C11: when the close() of a transport has returned, every pool of the
\* sequence of transports created, opened and closed so far is closed: the
\* server has as many client connections as before the sequence.
C11_ConnectionsReleased ==
    close_post[Caller].done => close_post[Caller].ok /\ ConnectedPools = 0

\* C11 witness: two transports at least were opened and closed, one given
\* its pool and one that made its pool on the first acquisition, and the
\* close() of the last one has returned.
C11_Witness ==
    /\ close_post[Caller].done
    /\ \E p \in PoolIds : cm_pools[p] = "closed" /\ close_init[p] = 1
    /\ Cardinality({p \in PoolIds : cm_pools[p] = "closed"}) >= 2
    /\ ~cm_injected
    /\ cm_pools[1] = "closed"

\* C9: the closed flag is sticky: once close() has set it, it is never
\* reset, and every connection_manager() call that begins afterwards fails
\* with TransportIsClosed without creating a pool or borrowing a connection.
C9_ClosedIsSticky ==
    /\ cm_was_closed => cm_closed
    /\ \A t \in Tasks :
        cm_entered_closed[t] =>
            cm_outcome[t] = "TransportIsClosed" /\ cm_pc[t] = "idle"

\* C9 witness: a transport that had a pool was closed, and a later
\* acquisition has failed with TransportIsClosed.
C9_Witness ==
    /\ cm_closed
    /\ \E p \in PoolIds : cm_pools[p] = "closed"
    /\ \E t \in Tasks : cm_entered_closed[t] /\ cm_outcome[t] = "TransportIsClosed"

\* C10: close() is idempotent: as long as close() calls follow one another
\* (none begins while another is running), every call succeeds and leaves
\* _closed set and the calling thread's pool binding released, and no pool
\* has its close initiated more than once.
C10_CloseIdempotent ==
    ~close_overlap =>
        /\ \A p \in PoolIds : close_init[p] <= 1
        /\ \A t \in Tasks :
            close_post[t].done =>
                close_post[t].ok /\ close_post[t].closed /\ ~close_post[t].bound

\* C10 witness: two tasks of one thread have closed the transport one after
\* the other; the first closed the pool, the second found it closed already.
C10_Witness ==
    /\ ~close_overlap
    /\ cm_closed
    /\ \E p \in PoolIds : close_init[p] = 1 /\ cm_pools[p] = "closed"
    /\ \E t, u \in Tasks :
        /\ t # u
        /\ ThreadOf(t) = ThreadOf(u)
        /\ close_post[t].done
        /\ close_post[u].done

(***************************************************************************)
(* Claims about the schema transport.                                      *)
(***************************************************************************)
\* load returns in this step.
LoadReturns ==
    \/ sch_pc = "mget" /\ sch_pc' = "idle"
    \/ sch_pc = "smembers" /\ sch_pc' = "idle"
\* A stage of the pipeline of store runs in this step.
StoreRuns == sch_pc \in {"set", "expire", "sadd"} /\ sch_pc' # sch_pc
\* The TTL of the last store of api a, if it had one, has not elapsed.
NotElapsed(a) ==
    sch_last[a].ttl = NoTtl \/ sch_last[a].age < sch_last[a].ttl
\* What a load() would return for api b, given the index and the keys.
ViewOf(set, keys, b) ==
    IF b \in DOMAIN LoadedDict(set, keys) THEN <<LoadedDict(set, keys)[b]>>
    ELSE <<>>

\* C21: load() maps each API to the schema most recently stored for it, as
\* long as the TTL of that store (if it had one) has not elapsed, and a
\* store for one API does not change what load() returns for another.
C21_LoadLatest ==
    [][/\ LoadReturns =>
            \A a \in SchemaApis :
                (sch_last[a].stored /\ NotElapsed(a)) =>
                    /\ a \in DOMAIN sch_loaded'
                    /\ sch_loaded'[a] = sch_last[a].schema
       /\ StoreRuns =>
            \A b \in SchemaApis \ {sch_call.api_name} :
                ViewOf(schemas_set', schema_key', b)
                    = ViewOf(schemas_set, schema_key, b)]_vars

\* C21 witness: load has returned the schemas of two APIs, each its own.
C21_Witness ==
    /\ sch_pc = "idle"
    /\ \E a, b \in DOMAIN sch_loaded :
          /\ sch_loaded[a] # sch_loaded[b]
          /\ sch_loaded[a] = sch_last[a].schema
          /\ sch_loaded[b] = sch_last[b].schema

\* C22: load() returns exactly the APIs named in the index "schemas" whose
\* key schema:<api> holds a value; a TTL removes the key alone and nothing
\* removes a name from the index.
C22_LoadExact ==
    [][/\ (sch_pc = "mget" /\ sch_pc' = "idle") =>
            /\ DOMAIN sch_loaded' = {a \in schemas_set : schema_key[a].exists}
            /\ \A a \in DOMAIN sch_loaded' :
                  json_encode(sch_loaded'[a]) = schema_key[a].value
       /\ (sch_pc = "smembers" /\ sch_pc' = "idle") =>
            schemas_set = {} /\ sch_loaded' = EmptyDict
       /\ schemas_set \subseteq schemas_set']_vars

\* C22 witness: load has left out an API whose key has expired and whose
\* name is still in the index.
C22_Witness ==
    /\ sch_pc = "idle"
    /\ \E a \in sch_names :
          /\ a \in schemas_set
          /\ ~schema_key[a].exists
          /\ a \notin DOMAIN sch_loaded

(***************************************************************************)
(* Claims about the return path.                                           *)
(***************************************************************************)
\* "<api>.<procedure>:result:<id>" of a message.
ResultKeyOf(rpc_message) ==
    rpc_message.api_name \o <<".">> \o rpc_message.procedure_name
        \o ResultInfix \o rpc_message.id

\* C23: the return path of a message is "redis+key://" followed by
\* "<api>.<procedure>:result:<id>" and is the same whenever it is computed
\* for the message; parsing it gives exactly that key, in send_result and
\* in receive_result alike, so that both work on the same Redis list.
C23_ReturnPathKey ==
    [][/\ rp_path' # <<>> =>
            /\ rp_path' = KeyScheme \o ResultKeyOf(rp_msg)
            /\ rp_path # <<>> => rp_path' = rp_path
       /\ rp_send_key' # <<>> => rp_send_key' = ResultKeyOf(rp_msg)
       /\ rp_recv_key' # <<>> => rp_recv_key' = ResultKeyOf(rp_msg)
       /\ (rp_send_key' # <<>> /\ rp_recv_key' # <<>>) =>
            rp_send_key' = rp_recv_key']_vars

\* C23 witness: send_result and receive_result have parsed the return path
\* of a message whose names hold a "." and a ":".
C23_Witness ==
    /\ rp_msg.api_name = <<"a", ".", "b">>
    /\ rp_msg.procedure_name = <<"r", ":", "x">>
    /\ rp_send_key # <<>>
    /\ rp_recv_key = rp_send_key

(***************************************************************************)
(* Claims about redis_stream_id_subtract_one.                              *)
(***************************************************************************)
\* "0-0"
ZeroId == <<"0", "-", "0">>
\* The milliseconds and the sequence number an id denotes.
IdValue(message_id) ==
    <<int(SplitDash(message_id)[1]), int(SplitDash(message_id)[2])>>
\* a <= b on ints, and on ids in stream-id order.
RECURSIVE DigitsLeq(_, _)
DigitsLeq(a, b) ==
    IF a = <<>> THEN TRUE
    ELSE IF Head(a) # Head(b) THEN Head(a) < Head(b)
    ELSE DigitsLeq(Tail(a), Tail(b))
IntLeq(a, b) == Len(a) < Len(b) \/ (Len(a) = Len(b) /\ DigitsLeq(a, b))
IdLeq(x, y) ==
    \/ x[1] # y[1] /\ IntLeq(x[1], y[1])
    \/ x[1] = y[1] /\ IntLeq(x[2], y[2])

\* C25: redis_stream_id_subtract_one is clamped at the least id: "0-0" gives
\* "0-0", and no id gives a result greater than itself in stream-id order.
C25_Clamped ==
    sid_out # <<>> =>
        /\ sid_in = ZeroId => sid_out = ZeroId
        /\ IdLeq(IdValue(sid_out), IdValue(sid_in))

\* C25 witness: the function was applied to "0-0".
C25_Witness == sid_in = ZeroId /\ sid_out = ZeroId

\* What the specification gives for an id other than "0-0": "M-(N-1)" for
\* N > 0, "(M-1)-9999" for N = 0 and M > 0.
SpecSubtractOne(message_id) ==
    LET M == IdValue(message_id)[1]
        N == IdValue(message_id)[2]
    IN  IF Positive(N) THEN str(M) \o <<"-">> \o str(MinusOne(N))
        ELSE str(MinusOne(M)) \o <<"-">> \o str(BorrowedSeq)

\* C26: for every id other than "0-0" the function returns exactly
\* "M-(N-1)" (N > 0) or "(M-1)-9999" (N = 0, M > 0), whatever the number
\* of digits of M.
C26_SubtractOneExact ==
    (sid_out # <<>> /\ IdValue(sid_in) # <<<<0>>, <<0>>>>) =>
        sid_out = SpecSubtractOne(sid_in)

(***************************************************************************)
(* Claims about consume sessions that listen for every event of an API.    *)
(***************************************************************************)
\* Entry id of stream s is a real event: not the noop entry.
RealEvent(s, id) == id <= Len(ev_stream[s]) /\ ev_stream[s][id] # Noop

\* C24: under per-API streams a session that listens for (api, "*") yields
\* every event entry delivered to it from the stream of the API, whatever
\* its event name: no real event is passed over by the fetch task or by the
\* reclaim task, and what a task gets from Redis and hands on is the entry
\* itself.
C24_StarYieldsAll ==
    [][\A c \in EvConsumers :
          /\ \A s \in Streams, id \in EntryIds : RealEvent(s, id) => ~Filtered(s, id)
          /\ (ev_fetch[c].pc \in {"pending", "new", "join"}
                    /\ ev_fetch'[c].pc \in {"put", "join", "new", "exists"}
                    /\ ev_fetch'[c] # ev_fetch[c]) =>
                LET source == CASE ev_fetch[c].pc = "pending" ->
                                       PendingReply(ev_pel, c, 1)
                                [] ev_fetch[c].pc = "new" ->
                                       NewReply(ev_stream, ev_group, batch_size, 1)
                                [] OTHER -> ev_fetch[c].batch
                    taken == ev_fetch'[c].pc \in {"put", "join"}
                    passed == IF taken THEN Len(source) - Len(ev_fetch'[c].batch) - 1
                              ELSE Len(source)
                IN  /\ \A k \in 1..passed :
                          ~RealEvent(source[k].stream, source[k].id)
                    /\ taken =>
                          /\ ev_fetch'[c].last
                                = Item(source[passed + 1].stream, source[passed + 1].id)
                          /\ ev_fetch'[c].batch
                                = SubSeq(source, passed + 2, Len(source))]_vars

\* C24 witness: the session has yielded an event whose name is not the one
\* the other sessions of the model listen for.
C24_Witness ==
    \E c \in EvConsumers, s \in Streams, id \in EntryIds :
        /\ "*" \in expected_events
        /\ RealEvent(s, id) /\ ev_stream[s][id].event_name = "closed"
        /\ ev_gen[c].pc = "yielded" /\ ev_gen[c].cur = Item(s, id)

\* The entries pending for consumer c, as (message, stream) items.
OwnPending(c) ==
    UNION {{Item(s, id) : id \in OwnIds(ev_pel[s], c)} :
              s \in {x \in Streams : Consumed(x)}}
\* The items of a reply.
ItemsOf(reply) == {Item(reply[k].stream, reply[k].id) : k \in 1..Len(reply)}
\* What _fields_to_message makes of an entry of a reply.
Decoded(m) == fields_to_message(ev_stream[m.stream][m.id], expected_events, m.id)

\* C27: a ConnectionClosedError in the fetch loop leaves the session
\* running; after its sleep the loop starts again at the group-ensure step,
\* which leaves the position of an existing group alone; the backlog read
\* that follows returns every entry pending for this consumer, and every
\* one of them that decodes to a message is handed on, in order, before the
\* loop reads new entries: when it reads new entries no event of the
\* consumer is left unacknowledged.
C27_RestartRereads ==
    [][\A c \in EvConsumers :
          LET f == ev_fetch[c]
              g == ev_fetch'[c]
          IN  /\ (f.pc # "sleep" /\ g.pc = "sleep") =>
                    /\ Running(c) /\ ev_gen'[c] = ev_gen[c]
                    /\ ev_queue'[c] = ev_queue[c] /\ ev_reclaim'[c] = ev_reclaim[c]
              /\ (f.pc = "sleep" /\ g # f) => (g.pc = "exists" /\ g.k = 1)
              /\ (f.pc \in {"exists", "xadd", "xgroup"} /\ g # f) =>
                    /\ \A s \in Streams : ev_group[s].exists => ev_group'[s] = ev_group[s]
                    /\ g.pc \in {"exists", "xadd", "xgroup", "pending", "sleep"}
              /\ (f.pc = "pending" /\ g # f /\ g.pc # "sleep") =>
                    ItemsOf(PendingReply(ev_pel, c, 1)) = OwnPending(c)
              /\ (f.pc \in {"pending", "join"} /\ g # f /\ g.pc # "sleep"
                        /\ g.phase = "pending") =>
                    LET source == IF f.pc = "pending" THEN PendingReply(ev_pel, c, 1)
                                  ELSE f.batch
                        taken == g.pc \in {"put", "join"}
                        passed == IF taken THEN Len(source) - Len(g.batch) - 1
                                  ELSE Len(source)
                    IN  /\ \A k \in 1..passed : Decoded(source[k]) = None
                        /\ taken =>
                              /\ g.last = Item(source[passed + 1].stream,
                                               source[passed + 1].id)
                              /\ g.batch = SubSeq(source, passed + 2, Len(source))
                        /\ ~taken => g.pc = "new"
              /\ g.pc = "new" =>
                    \A m \in OwnPending(c)' : Decoded(m)' = None]_vars

\* C27 witness: the reply of an XREADGROUP > was lost after the server had
\* made its entry pending for the consumer; the loop has started again and
\* its backlog read has brought the entry, which the caller now holds.
C27_Witness ==
    \E c \in EvConsumers :
        /\ ev_faults > 0 /\ ev_gen[c].pc = "yielded"
        /\ ev_fetch[c].phase = "pending" /\ ev_fetch[c].pc = "join"
        /\ ev_fetch[c].last = ev_gen[c].cur
        /\ ev_gen[c].cur \in OwnPending(c)

\* The positions of consume_rpcs while it runs.
InConsume == {"blpop", "del", "sleep"}

\* C28: a ConnectionClosedError in the BLPOP or in the DEL of _consume_rpcs
\* never leaves consume_rpcs: consume_rpcs sleeps and then blocks in BLPOP
\* again, however many losses came before, and it returns from the DEL
\* only, with a batch that is empty or holds the one message popped.
C28_LossesRetried ==
    [][\A c \in RpcConsumers :
          /\ consume_pc'[c] \in InConsume \cup {"idle"}
          /\ (consume_pc[c] \in {"blpop", "del"} /\ rpc_losses' # rpc_losses
                    /\ consume_pc'[c] # consume_pc[c]) =>
                (consume_pc'[c] = "sleep" /\ consume_ret'[c] = consume_ret[c])
          /\ (consume_pc[c] = "sleep" /\ consume_pc'[c] # "sleep") =>
                consume_pc'[c] = "blpop"
          /\ (consume_pc[c] \in InConsume /\ consume_pc'[c] = "idle") =>
                /\ consume_pc[c] = "del"
                /\ consume_ret'[c] \in {<<>>, <<consume_msg[c]>>}]_vars

\* C28 witness: a call of consume_rpcs that lost its connection twice in a
\* row, before anything was popped, blocks in BLPOP once more.
C28_Witness ==
    \E c \in RpcConsumers :
        /\ rpc_losses = 2 /\ consume_pc[c] = "blpop"
        /\ \A i \in CallIds : popped[i] = 0
        /\ \A d \in RpcConsumers \ {c} : consume_pc[d] = "idle"

\* C29: a consume_rpcs that is cancelled in the BLPOP, in the DEL or in the
\* reconnect sleep ends, and ends with CancelledError, whatever the
\* cancellation surfaced as.
C29_CancelledEnds ==
    [][\A c \in RpcConsumers :
          (consume_pc[c] \in InConsume /\ consume_pc'[c] \notin InConsume \cup {"idle"})
              => consume_pc'[c] = "CancelledError"]_vars

\* How a session that has terminated ended.
Terminated == {"closed", "failed", "cancelled"}

\* C30: however the generator leaves (closed by the caller, cancelled,
\* on a failed acknowledgement), its termination follows, and when it is
\* complete both tasks of the session have been cancelled and have
\* finished; from then on to the next session neither task takes a step and
\* nothing is read from or written to the group.
C30_TasksEndFirst ==
    /\ \A c \in Solo : (ev_gen[c].pc = "finally") ~> (ev_gen[c].pc \in Terminated)
    /\ [][\A c \in Solo :
            /\ ev_gen'[c].pc \in Terminated =>
                  /\ ev_fetch'[c] = FetchOff
                  /\ ev_reclaim'[c] \in {ReclaimOff, [ReclaimOff EXCEPT !.pc = "done"]}
            /\ (ev_gen[c].pc \in Terminated /\ ev_gen'[c].pc \in Terminated) =>
                  /\ ev_group' = ev_group
                  /\ \A s \in Streams :
                        {<<p.id, p.consumer>> : p \in ev_pel'[s]}
                            = {<<p.id, p.consumer>> : p \in ev_pel[s]}]_vars

\* C30 witness: a session has terminated on a failed acknowledgement, its
\* two tasks having been cancelled one after the other.
C30_Witness ==
    \E c \in Solo :
        /\ ev_gen[c].pc = "failed"
        /\ ev_fetch[c] = FetchOff /\ ev_reclaim[c] = ReclaimOff

OtherTasks == {t \in Tasks : ThreadOf(t) # "main"}

\* C32: with an injected pool, connection_manager() called in another
\* thread than the constructing one ends in an error (the Exception about
\* threaded use or, once close() has been called, TransportIsClosed): it
\* never creates a pool, never borrows a connection and binds nothing in
\* its thread; the injected pool stays the only pool, bound in the
\* constructing thread and open until a close() reaches it, and only tasks
\* of the constructing thread borrow from it.
C32_InjectedOneThread ==
    cm_injected =>
        /\ \A t \in OtherTasks :
              /\ cm_pc[t] = "idle" /\ cm_pool[t] = 0
              /\ cm_outcome[t] \in {"none", "Exception", "TransportIsClosed", "closed"}
              /\ cm_outcome[t] = "TransportIsClosed" => cm_entered_closed[t]
              /\ cm_outcome[t] = "Exception" => ~cm_entered_closed[t]
        /\ \A th \in Threads \ {"main"} : cm_local[th] = 0
        /\ \A p \in PoolIds \ {1} : cm_pools[p] = "none"
        /\ close_init[1] = 0 => (cm_local["main"] = 1 /\ cm_pools[1] = "open")
        /\ \A t \in Tasks : cm_outcome[t] = "ok" => ThreadOf(t) = "main"
        /\ \A t \in Tasks \ OtherTasks : cm_outcome[t] # "Exception"

\* C32 witness: an acquisition in the other thread was rejected and a task
\* of the constructing thread holds a connection of the injected pool.
C32_Witness ==
    /\ cm_injected
    /\ \E t \in OtherTasks : cm_outcome[t] = "Exception"
    /\ \E t \in Tasks \ OtherTasks : cm_pc[t] = "holding" /\ cm_pool[t] = 1

\* C33: a transport built from connection_parameters creates at most one
\* pool per thread: every pool that was created and is still open is the
\* one bound in some thread, and no thread's first acquisitions create more
\* than one pool between them.
C33_OnePoolPerThread ==
    ~cm_injected =>
        /\ \A p \in PoolIds : cm_pools[p] = "open" => \E th \in Threads : cm_local[th] = p
        /\ Cardinality({p \in PoolIds : cm_pools[p] # "none"}) <= Cardinality(Threads)

\* C34: once a close() has returned in a thread, no open pool is bound
\* there again, whatever acquisition was in flight when close() ran.
C34_NoPoolAfterClose ==
    \A t \in Tasks :
        (close_post[t].done /\ close_post[t].ok) =>
            LET p == cm_local[ThreadOf(t)]
            IN  p # 0 => cm_pools[p] # "open"

\* C35: every close() call that has ended, ended without raising, also
\* when it began while another close() was waiting for the pool to close,
\* and left the pool binding released.
C35_OverlappingCloses ==
    \A t \in Tasks :
        close_post[t].done => (close_post[t].ok /\ ~close_post[t].bound)


\* C36: every event that consume yields matches some listen_for pair on both
\* the API name and the event name: the pair (api, event) or (api, "*").
C36_YieldedIsListenedFor ==
    ls_yielded # NoEvent =>
        \E k \in 1..Len(ListenFor) :
            /\ ListenFor[k][1] = ls_yielded[1]
            /\ ListenFor[k][2] \in {ls_yielded[2], "*"}

\* C37: with one since value per listen_for pair, every consumer group is
\* created with the since value of a pair that maps to the group's stream.
C37_SinceOfOwnStream ==
    \A g \in ls_created :
        \E k \in 1..Len(ListenFor) :
            /\ StreamName(ListenFor[k][1], ListenFor[k][2]) = g[1]
            /\ ls_since[k] = g[2]


\* C38: the reclaim task issues XPENDING for a stream only when the stream
\* and the consumer group exist, whatever the acknowledgement timeout and
\* however the fetch task was delayed.
C38_XpendingAfterGroup ==
    [][\A c \in EvConsumers :
          (/\ ev_reclaim[c].pc = "xpending"
           /\ ev_reclaim'[c] # ev_reclaim[c]
           /\ ev_reclaim'[c].pc \in {"xpending", "xclaim", "done"})
          => LET stream == stream_names[ev_reclaim[c].k]
             IN  ev_stream[stream] # <<>> /\ ev_group[stream].exists]_vars

\* C39: the calls of one API are popped in the order in which they were
\* enqueued (calls are enqueued in the order of their ids), and a single
\* consumer is handed them in that order.
C39_FirstInFirstOut ==
    [][\A i \in CallIds :
          /\ popped'[i] > popped[i] =>
                \A j \in CallIds :
                    (j < i /\ call_api[j] = call_api[i]) => popped[j] > 0
          /\ delivered'[i] > delivered[i] =>
                \A j \in CallIds :
                    (j # i /\ call_api[j] = call_api[i] /\ delivered[j] > 0)
                        => j < i]_vars
\* Two calls of one API have been delivered, the second popped after its
\* pipeline had ended.
C39_Witness ==
    /\ call_api[1] = call_api[2]
    /\ delivered[1] = 1 /\ delivered[2] = 1
    /\ obs["w1"].id = 2 /\ obs["w1"].stageAtPop = "done"

\* C40: in every consume session the borrow of the acknowledgement, once it
\* waits for a connection of the pool, gets one.
C40_AckBorrows ==
    \A s \in BrSessions : (br_gen[s] = "acquire") ~> (br_gen[s] # "acquire")
====
